---- MODULE Spec2Model ----
(***************************************************************************)
(* Smart-File-Organizer: the server's request handlers over the hosted     *)
(* relational store (tables files and folders), the similar-file matcher   *)
(* of POST /api/files/:id/apply-to-similar and the auto-organizer of       *)
(* POST /api/organize-files, the tagging service, and the routes that      *)
(* upload, retag, reprocess and delete a file.                             *)
(*                                                                         *)
(* Strings are sequences of one-character strings, so that toLowerCase,    *)
(* split, replace and includes are computed character by character as the *)
(* JavaScript code computes them.  An absent optional string (undefined)   *)
(* is the empty sequence: every use of such a value in the code is a       *)
(* truthiness test, which undefined and "" answer alike.  An absent id     *)
(* (SQL NULL) is 0; ids handed out by the store are 1, 2, ...              *)
(***************************************************************************)
EXTENDS Naturals, Sequences, FiniteSets, TLC

VARIABLES
  files,    \* table files: sequence of rows in insertion (uploaded_at) order
  folders,  \* table folders: sequence of rows in insertion (created_at) order
  clock,    \* rows inserted so far: the source of fresh ids and timestamps
  req,      \* the request handlers in flight: slot -> handler state
  budget,   \* requests that may still arrive
  pin,      \* input of a probe of a pure function (matcher, tagging)
  pout,     \* its output
  objects   \* bucket file-storage: the paths of the objects it holds

vars == <<files, folders, clock, req, budget, pin, pout, objects>>

---------------------------------------------------------------------------
(* JavaScript string primitives                                            *)

UpperAlpha ==
  <<"A","B","C","D","E","F","G","H","I","J","K","L","M",
    "N","O","P","Q","R","S","T","U","V","W","X","Y","Z">>

LowerAlpha ==
  <<"a","b","c","d","e","f","g","h","i","j","k","l","m",
    "n","o","p","q","r","s","t","u","v","w","x","y","z">>

Digits == {"0","1","2","3","4","5","6","7","8","9"}

Range(s) == { s[i] : i \in DOMAIN s }

\* String.prototype.toLowerCase, one character
LowerChar(c) ==
  IF \E i \in DOMAIN UpperAlpha : UpperAlpha[i] = c
  THEN LowerAlpha[CHOOSE i \in DOMAIN UpperAlpha : UpperAlpha[i] = c]
  ELSE c

\* String.prototype.toLowerCase
toLowerCase(s) == [i \in 1..Len(s) |-> LowerChar(s[i])]

\* String.prototype.includes
includes(s, sub) ==
  \E i \in 0..(Len(s) - Len(sub)) : SubSeq(s, i + 1, i + Len(sub)) = sub

\* String.prototype.split on a one-character separator: always at least one
\* piece, empty pieces are kept
RECURSIVE split(_, _)
split(s, sep) ==
  IF \A i \in 1..Len(s) : s[i] # sep
  THEN <<s>>
  ELSE LET i == CHOOSE k \in 1..Len(s) :
                  s[k] = sep /\ \A j \in 1..(k - 1) : s[j] # sep
       IN <<SubSeq(s, 1, i - 1)>> \o split(SubSeq(s, i + 1, Len(s)), sep)

\* Array.prototype.pop on the result of split: its last piece
pop(a) == a[Len(a)]

\* .replace(/[^a-z0-9]/g, ' ')
replaceNonAlnum(s) ==
  [i \in 1..Len(s) |->
     IF s[i] \in Range(LowerAlpha) \cup Digits THEN s[i] ELSE " "]

---------------------------------------------------------------------------
(* The similar-file matcher: the filter callback of apply-to-similar       *)

\* (file_type || '').split('/')[0]?.toLowerCase()
mainType(f) == toLowerCase(split(f.file_type, "/")[1])

sameMainType(sourceFile, file) == mainType(sourceFile) = mainType(file)

sameExactType(sourceFile, file) == file.file_type = sourceFile.file_type

\* extension without toLowerCase
extensionCaseSensitive(f) == pop(split(f.original_name, "."))

\* (original_name || '').split('.').pop()?.toLowerCase()
extension(f) == toLowerCase(pop(split(f.original_name, ".")))

sameExtension(sourceFile, file) == extension(sourceFile) = extension(file)

\* keywords with the filter word.length >= 2 (an off-by-one of the filter)
keywordsLen2(f) ==
  SelectSeq(split(replaceNonAlnum(toLowerCase(f.original_name)), " "),
            LAMBDA word : Len(word) >= 2)

\* keywords keeping the words of more than 3 characters
keywordsLonger(f) ==
  SelectSeq(split(replaceNonAlnum(toLowerCase(f.original_name)), " "),
            LAMBDA word : Len(word) > 3)

\* sourceKeywords / fileKeywords: the same expression on either file
keywords(f) ==
  SelectSeq(split(replaceNonAlnum(toLowerCase(f.original_name)), " "),
            LAMBDA word : Len(word) > 2)

\* commonKeywords testing fKeyword.includes(keyword) only
commonKeywordsOneWay(sourceFile, file) ==
  SelectSeq(keywords(sourceFile),
            LAMBDA keyword :
              \E j \in DOMAIN keywords(file) :
                 includes(keywords(file)[j], keyword))

commonKeywords(sourceFile, file) ==
  SelectSeq(keywords(sourceFile),
            LAMBDA keyword :
              \E j \in DOMAIN keywords(file) :
                 LET fKeyword == keywords(file)[j]
                 IN \/ includes(fKeyword, keyword)
                    \/ includes(keyword, fKeyword)
                    \/ fKeyword = keyword)

hasCommonKeywords(sourceFile, file) == Len(commonKeywords(sourceFile, file)) > 0

isMatch(sourceFile, file) ==
  \/ sameExactType(sourceFile, file)
  \/ (sameMainType(sourceFile, file) /\ sameExtension(sourceFile, file))
  \/ (sameExtension(sourceFile, file) /\ hasCommonKeywords(sourceFile, file))

---------------------------------------------------------------------------
(* File names and MIME types the probes and the stores draw from           *)

N_report_q1_pdf == <<"r","e","p","o","r","t","_","q","1",".","p","d","f">>
N_report_q2_pdf == <<"r","e","p","o","r","t","_","q","2",".","p","d","f">>
N_photo_jpg     == <<"p","h","o","t","o",".","j","p","g">>
N_Report_PDF    == <<"R","e","p","o","r","t",".","P","D","F">>
N_rep_jpg       == <<"r","e","p",".","j","p","g">>
N_notes_md      == <<"n","o","t","e","s",".","m","d">>
N_todo_md       == <<"t","o","d","o",".","m","d">>
N_note_md       == <<"n","o","t","e",".","m","d">>
N_q1_pdf_gz     == <<"q","1",".","p","d","f",".","g","z">>
N_readme        == <<"R","E","A","D","M","E">>
N_dot           == <<"a","b",".">>

T_application_pdf == <<"a","p","p","l","i","c","a","t","i","o","n","/","p","d","f">>
T_Application_xpdf == <<"A","p","p","l","i","c","a","t","i","o","n","/","x","-","p","d","f">>
T_image_jpeg == <<"i","m","a","g","e","/","j","p","e","g">>
T_text_plain == <<"t","e","x","t","/","p","l","a","i","n">>
T_text_markdown == <<"t","e","x","t","/","m","a","r","k","d","o","w","n">>

ProbeNames ==
  { N_report_q1_pdf, N_report_q2_pdf, N_photo_jpg, N_Report_PDF, N_rep_jpg,
    N_notes_md, N_todo_md, N_note_md, N_q1_pdf_gz, N_readme, N_dot }

ProbeTypes ==
  { T_application_pdf, T_Application_xpdf, T_image_jpeg, T_text_plain,
    T_text_markdown }

ProbeFiles ==
  [original_name : ProbeNames, file_type : ProbeTypes]

---------------------------------------------------------------------------
(* Probe of the matcher on a pair of files                                 *)

NoProbe == [kind |-> "none"]

InitMatch ==
  /\ files = <<>>
  /\ folders = <<>>
  /\ clock = 0
  /\ req = <<>>
  /\ budget = 0
  /\ pin \in [sourceFile : ProbeFiles, file : ProbeFiles]
  /\ pout = NoProbe
  /\ objects = {}

MatchProbe ==
  /\ pout = NoProbe
  /\ pout' = [kind |-> "match",
              isMatch |-> isMatch(pin.sourceFile, pin.file),
              reverse |-> isMatch(pin.file, pin.sourceFile),
              sourceExt |-> extension(pin.sourceFile),
              sourceKeywords |-> keywords(pin.sourceFile),
              sameExtension |-> sameExtension(pin.sourceFile, pin.file),
              hasCommonKeywords |-> hasCommonKeywords(pin.sourceFile, pin.file)]
  /\ UNCHANGED <<files, folders, clock, req, budget, pin, objects>>

NextMatch == MatchProbe

SpecMatch == InitMatch /\ [][NextMatch]_vars

---------------------------------------------------------------------------
(* The relational store: tables files and folders                          *)

Users == {"u1", "u2"}

\* undefined, where the code expects a row
NoRow == [id |-> 0]

\* columns of CREATE TABLE files
FileColumns ==
  {"id", "original_name", "display_name", "file_type", "file_size",
   "storage_path", "tags", "ai_generated", "user_id", "folder_id",
   "uploaded_at", "metadata"}

\* columns of CREATE TABLE folders
FolderColumns ==
  {"id", "name", "parent_id", "user_id", "created_at", "is_ai_generated"}

Reverse(s) == [i \in 1..Len(s) |-> s[Len(s) + 1 - i]]

\* SupabaseStorage.createFile: the row the insert makes of an InsertFile;
\* the store gives it the fresh id n and the timestamp n
fileRow(insertFile, n) ==
  [id            |-> n,
   original_name |-> insertFile.originalName,
   display_name  |-> insertFile.displayName,
   file_type     |-> insertFile.fileType,
   file_size     |-> insertFile.fileSize,
   storage_path  |-> insertFile.storagePath,
   folder_id     |-> insertFile.folderId,
   user_id       |-> insertFile.userId,
   tags          |-> insertFile.tags,
   ai_generated  |-> insertFile.aiGenerated,
   metadata      |-> insertFile.metadata,
   uploaded_at   |-> n]

\* SupabaseStorage.createFolder: the row the insert makes of an InsertFolder
folderRow(insertFolder, n) ==
  [id              |-> n,
   name            |-> insertFolder.name,
   parent_id       |-> insertFolder.parentId,
   user_id         |-> insertFolder.userId,
   is_ai_generated |-> insertFolder.isAiGenerated,
   created_at      |-> n]

\* getFile without the filter on the caller: .eq(id) alone
getFileOfAnyone(tbl, id, userId) ==
  LET rows == SelectSeq(tbl, LAMBDA r : r.id = id)
  IN IF Len(rows) = 1 THEN rows[1] ELSE NoRow

\* SupabaseStorage.getFile: .eq(id).eq(user_id).single(); any error, also
\* "not exactly one row", gives undefined
getFile(tbl, id, userId) ==
  LET rows == SelectSeq(tbl, LAMBDA r : r.id = id /\ r.user_id = userId)
  IN IF Len(rows) = 1 THEN rows[1] ELSE NoRow

\* SupabaseStorage.getAllFiles: .eq(user_id).order(uploaded_at, descending)
getAllFiles(tbl, userId) ==
  Reverse(SelectSeq(tbl, LAMBDA r : r.user_id = userId))

\* the folders of every user, newest first
getAllFoldersOfAnyone(tbl, userId) == Reverse(tbl)

\* SupabaseStorage.getAllFolders: .eq(user_id).order(created_at, descending)
getAllFolders(tbl, userId) ==
  Reverse(SelectSeq(tbl, LAMBDA r : r.user_id = userId))

\* The store's answer to .update(updates): the keys of updates are sent to
\* the store as they are (createFile renames them to the columns, updateFile
\* does not), and the store refuses a key that is no column of the table
updateAccepted(updates) == DOMAIN updates \subseteq FileColumns

\* updateFile merging the new tags into the row's tags instead of replacing
updateFileUnionTags(tbl, id, updates, userId) ==
  LET hit == { i \in DOMAIN tbl : tbl[i].id = id /\ tbl[i].user_id = userId }
  IN IF ~(DOMAIN updates \subseteq FileColumns) \/ Cardinality(hit) # 1
     THEN [files |-> tbl, data |-> NoRow]
     ELSE LET i == CHOOSE k \in hit : TRUE
              row == [c \in FileColumns |->
                        IF c \notin DOMAIN updates THEN tbl[i][c]
                        ELSE IF c = "tags" THEN tbl[i][c] \o updates[c]
                        ELSE updates[c]]
          IN [files |-> [tbl EXCEPT ![i] = row], data |-> row]

\* an update that is not held to the row of the id: the columns named in
\* updates are written to every row of the user
updateFileEveryRow(tbl, id, updates, userId) ==
  LET row(i) == [c \in FileColumns |->
                   IF c \in DOMAIN updates THEN updates[c] ELSE tbl[i][c]]
      hit == { i \in DOMAIN tbl : tbl[i].user_id = userId }
  IN [files |-> [i \in DOMAIN tbl |-> IF i \in hit THEN row(i) ELSE tbl[i]],
      data |-> IF hit = {} THEN NoRow ELSE row(CHOOSE i \in hit : TRUE)]

\* SupabaseStorage.updateFile: .update(updates).eq(id).eq(user_id).select()
\* .single(); any error gives undefined and leaves the table as it was
updateFile(tbl, id, updates, userId) ==
  LET hit == { i \in DOMAIN tbl : tbl[i].id = id /\ tbl[i].user_id = userId }
  IN IF ~updateAccepted(updates) \/ Cardinality(hit) # 1
     THEN [files |-> tbl, data |-> NoRow]
     ELSE LET i == CHOOSE k \in hit : TRUE
              row == [c \in FileColumns |->
                        IF c \in DOMAIN updates THEN updates[c] ELSE tbl[i][c]]
          IN [files |-> [tbl EXCEPT ![i] = row], data |-> row]

\* outcomes of one call of the store: it answers, it answers with an error,
\* or the call throws
CallOutcomes == {"ok", "error", "throw"}

---------------------------------------------------------------------------
(* Request handlers.  A handler runs from one await to the next in one     *)
(* step; req[p] holds its local variables, its response once it has        *)
(* answered, and what it saw and tried (files0, folders0, attempted).      *)

Idle == [kind |-> "idle", pc |-> "idle"]

\* a route handler starts at a slot whose handler has answered, or to which
\* authenticateUser hands its request with next()
CanStart(p) == req[p].pc \in {"idle", "done", "auth.getUser"} /\ budget > 0

respond(r, status, body) ==
  [r EXCEPT !.pc = "done", !.status = status, !.body = body]

E_FileNotFound == "File not found"
E_ApplyFailed == "Failed to apply tags to similar files"

---------------------------------------------------------------------------
(* POST /api/files/:id/apply-to-similar                                    *)

\* allFiles.filter(file => { if (file.id === id) return false; ...
\* return isMatch })
similarFilter(allFiles, sourceFile, id) ==
  SelectSeq(allFiles, LAMBDA file : file.id # id /\ isMatch(sourceFile, file))

\* updates that copy the source's folder along with its tags
similarUpdatesWithFolder(sourceFile) ==
  [tags |-> sourceFile.tags, folder_id |-> sourceFile.folder_id]

\* the updates object of the loop: { tags: sourceFile.tags }
similarUpdates(sourceFile) == [tags |-> sourceFile.tags]

\* the push without its test of updatedFile
pushAlways(updatedFiles, updatedFile) == Append(updatedFiles, updatedFile)

\* if (updatedFile) { updatedFiles.push(updatedFile) }
pushUpdated(updatedFiles, updatedFile) ==
  IF updatedFile = NoRow THEN updatedFiles ELSE Append(updatedFiles, updatedFile)

\* after the loop: res.json({ sourceFile, updatedFiles, count,
\* similarFilesFound })
similarAfterLoop(r) ==
  IF r.i <= Len(r.similarFiles)
  THEN r
  ELSE respond(r, 200,
               [sourceFile        |-> r.sourceFile,
                updatedFiles      |-> r.updatedFiles,
                count             |-> Len(r.updatedFiles),
                similarFilesFound |-> Len(r.similarFiles)])

SimilarStart ==
  \E p \in DOMAIN req, userId \in Users, id \in 1..(clock + 1) :
     /\ CanStart(p)
     /\ budget' = budget - 1
     /\ req' = [req EXCEPT ![p] =
                  [kind |-> "similar", pc |-> "getFile", userId |-> userId,
                   id |-> id, sourceFile |-> NoRow, allFiles |-> <<>>,
                   similarFiles |-> <<>>, i |-> 1, updatedFiles |-> <<>>,
                   attempted |-> <<>>, status |-> 0, body |-> <<>>,
                   files0 |-> files, folders0 |-> folders,
                   objects0 |-> objects]]
     /\ UNCHANGED <<files, folders, clock, pin, pout, objects>>

\* const sourceFile = await storage.getFile(...); if (!sourceFile) 404
SimilarGetFile ==
  \E p \in DOMAIN req, ok \in BOOLEAN :
     /\ req[p].kind = "similar" /\ req[p].pc = "getFile"
     /\ LET r == req[p]
            sourceFile == IF ok THEN getFile(files, r.id, r.userId) ELSE NoRow
        IN req' = [req EXCEPT ![p] =
                     IF sourceFile = NoRow
                     THEN respond(r, 404, [error |-> E_FileNotFound])
                     ELSE [r EXCEPT !.pc = "getAllFiles",
                                    !.sourceFile = sourceFile]]
     /\ UNCHANGED <<files, folders, clock, budget, pin, pout, objects>>

\* const allFiles = await storage.getAllFiles(...); the filter; the loop
\* up to its first await
SimilarGetAllFiles ==
  \E p \in DOMAIN req, ok \in BOOLEAN :
     /\ req[p].kind = "similar" /\ req[p].pc = "getAllFiles"
     /\ LET r == req[p]
            allFiles == getAllFiles(files, r.userId)
        IN req' = [req EXCEPT ![p] =
                     IF ok
                     THEN similarAfterLoop(
                            [r EXCEPT !.pc = "updateFile",
                                      !.allFiles = allFiles,
                                      !.similarFiles =
                                         similarFilter(allFiles, r.sourceFile, r.id),
                                      !.i = 1])
                     ELSE respond(r, 500, [error |-> E_ApplyFailed])]
     /\ UNCHANGED <<files, folders, clock, budget, pin, pout, objects>>

\* one turn of the loop: await storage.updateFile(file.id, { tags }, ...)
\* inside try/catch; a row is pushed, undefined and a throw are skipped.
\* attempted records the call and whether the store made the update.
SimilarUpdateFile ==
  \E p \in DOMAIN req, outcome \in CallOutcomes :
     /\ req[p].kind = "similar" /\ req[p].pc = "updateFile"
     /\ LET r == req[p]
            file == r.similarFiles[r.i]
            res == IF outcome = "ok"
                   THEN updateFile(files, file.id, similarUpdates(r.sourceFile),
                                   r.userId)
                   ELSE [files |-> files, data |-> NoRow]
        IN /\ files' = res.files
           /\ req' = [req EXCEPT ![p] =
                        similarAfterLoop(
                          [r EXCEPT !.i = r.i + 1,
                                    !.attempted =
                                       Append(r.attempted,
                                              [id |-> file.id,
                                               updated |-> res.data # NoRow]),
                                    !.updatedFiles =
                                       pushUpdated(r.updatedFiles, res.data)])]
     /\ UNCHANGED <<folders, clock, budget, pin, pout, objects>>

---------------------------------------------------------------------------
(* Stores the apply-to-similar requests are run against                    *)

\* files in a store when a request arrives
MaxFiles == 3

\* apply-to-similar requests in one behaviour
SimilarRequests == 1

Tag_finance == <<"f","i","n","a","n","c","e">>
Tag_old     == <<"o","l","d">>
Tag_photo   == <<"p","h","o","t","o">>

N_Work == <<"W","o","r","k">>

NoMetadata == [confidence |-> 0, suggestedFolderName |-> <<>>, url |-> <<>>]

\* SupabaseStorageService.uploadFile: the path `uploads/${fileId}.${extension}`
\* of a fresh fileId, kept as its two parts
uploadPath(fileId, fileName) ==
  [fileId |-> fileId, extension |-> pop(split(fileName, "."))]

\* an InsertFile as the upload handlers build it, for a file of this name,
\* type, owner, tags and folder
insertFileOf(name, type, userId, tags, folderId) ==
  [originalName |-> name, displayName |-> name, fileType |-> type,
   fileSize |-> Len(name), storagePath |-> uploadPath(0, name),
   folderId |-> folderId, userId |-> userId, tags |-> tags,
   aiGenerated |-> TRUE, metadata |-> NoMetadata]

\* the uploads the stores are made of
SimInserts ==
  { insertFileOf(N_report_q1_pdf, T_application_pdf, "u1",
                 <<Tag_finance, Tag_old>>, 0),
    insertFileOf(N_Report_PDF, T_Application_xpdf, "u1", <<>>, 1),
    insertFileOf(N_report_q2_pdf, T_text_plain, "u1",
                 <<Tag_old, Tag_finance>>, 1),
    insertFileOf(N_notes_md, T_text_plain, "u1", <<Tag_photo>>, 0),
    insertFileOf(N_todo_md, T_application_pdf, "u1", <<Tag_old>>, 0),
    insertFileOf(N_report_q1_pdf, T_application_pdf, "u2", <<Tag_photo>>, 0) }

\* a store of up to MaxFiles of these uploads, each at most once, in any
\* order of upload, and one folder
InitSimilar ==
  /\ folders = <<folderRow([name |-> N_Work, parentId |-> 0, userId |-> "u1",
                            isAiGenerated |-> FALSE], 1)>>
  /\ \E n \in 0..MaxFiles :
       \E ins \in [1..n -> SimInserts] :
          /\ \A i, j \in 1..n : ins[i] = ins[j] => i = j
          /\ files = [i \in 1..n |->
                        fileRow([ins[i] EXCEPT !.storagePath =
                                   uploadPath(i, ins[i].originalName)], i + 1)]
  /\ clock = Len(files) + 1
  /\ req = [p \in {1} |-> Idle]
  /\ budget = SimilarRequests
  /\ pin = NoProbe
  /\ pout = NoProbe
  /\ objects = { files[i].storage_path : i \in DOMAIN files }

NextSimilar ==
  \/ SimilarStart
  \/ SimilarGetFile
  \/ SimilarGetAllFiles
  \/ SimilarUpdateFile

SpecSimilar == InitSimilar /\ [][NextSimilar]_vars

---------------------------------------------------------------------------
(* The tagging service                                                     *)

S_pdf == <<"p","d","f">>
S_doc == <<"d","o","c">>
S_resume == <<"r","e","s","u","m","e">>
S_cv == <<"c","v">>
S_assignment == <<"a","s","s","i","g","n","m","e","n","t">>
S_homework == <<"h","o","m","e","w","o","r","k">>
S_cover == <<"c","o","v","e","r">>
S_letter == <<"l","e","t","t","e","r">>
S_job == <<"j","o","b">>
S_application == <<"a","p","p","l","i","c","a","t","i","o","n">>
S_image == <<"i","m","a","g","e">>
S_jpg == <<"j","p","g">>
S_png == <<"p","n","g">>
S_photo == <<"p","h","o","t","o">>
S_pic == <<"p","i","c">>
S_screenshot == <<"s","c","r","e","e","n","s","h","o","t">>
S_wallpaper == <<"w","a","l","l","p","a","p","e","r">>
S_background == <<"b","a","c","k","g","r","o","u","n","d">>
S_excel == <<"e","x","c","e","l">>
S_csv == <<"c","s","v">>
S_spreadsheet == <<"s","p","r","e","a","d","s","h","e","e","t">>
S_customer == <<"c","u","s","t","o","m","e","r">>
S_client == <<"c","l","i","e","n","t">>
S_finance == <<"f","i","n","a","n","c","e">>
S_loan == <<"l","o","a","n">>
S_payment == <<"p","a","y","m","e","n","t">>
S_video == <<"v","i","d","e","o">>
S_mp4 == <<"m","p","4">>
S_report == <<"r","e","p","o","r","t">>
S_invoice == <<"i","n","v","o","i","c","e">>
S_receipt == <<"r","e","c","e","i","p","t">>
S_project == <<"p","r","o","j","e","c","t">>
S_presentation == <<"p","r","e","s","e","n","t","a","t","i","o","n">>
S_ppt == <<"p","p","t">>
S_document == <<"d","o","c","u","m","e","n","t">>
S_personal == <<"p","e","r","s","o","n","a","l">>
S_work == <<"w","o","r","k">>
S_data == <<"d","a","t","a">>
S_uncategorized == <<"u","n","c","a","t","e","g","o","r","i","z","e","d">>

S_Resumes == <<"R","e","s","u","m","e","s">>
S_Assignments == <<"A","s","s","i","g","n","m","e","n","t","s">>
S_Cover_Letters == <<"C","o","v","e","r"," ","L","e","t","t","e","r","s">>
S_Job_Applications == <<"J","o","b"," ","A","p","p","l","i","c","a","t","i","o","n","s">>
S_Documents == <<"D","o","c","u","m","e","n","t","s">>
S_Photos == <<"P","h","o","t","o","s">>
S_Screenshots == <<"S","c","r","e","e","n","s","h","o","t","s">>
S_Wallpapers == <<"W","a","l","l","p","a","p","e","r","s">>
S_Images == <<"I","m","a","g","e","s">>
S_Customer_Data == <<"C","u","s","t","o","m","e","r"," ","D","a","t","a">>
S_Financial_Data == <<"F","i","n","a","n","c","i","a","l"," ","D","a","t","a">>
S_Spreadsheets == <<"S","p","r","e","a","d","s","h","e","e","t","s">>
S_Videos == <<"V","i","d","e","o","s">>
S_Financial_Documents == <<"F","i","n","a","n","c","i","a","l"," ","D","o","c","u","m","e","n","t","s">>
S_Projects == <<"P","r","o","j","e","c","t","s">>
S_Presentations == <<"P","r","e","s","e","n","t","a","t","i","o","n","s">>
S_Invoices == <<"I","n","v","o","i","c","e","s">>
S_invoices == <<"i","n","v","o","i","c","e","s">>

\* confidence of the fallback result, 0.7, in tenths
FallbackConfidence == 7

\* tags.push(...tags); suggestedFolderName = folder
pushRule(st, tags, folder) ==
  [tags |-> st.tags \o tags, suggestedFolderName |-> folder]

\* tags.push(...tags)
pushTags(st, tags) == [st EXCEPT !.tags = st.tags \o tags]

\* the document rule without its test for resume and cv
documentRulesNoResume(st, lowerName, lowerType) ==
  IF includes(lowerType, S_pdf) \/ includes(lowerType, S_doc)
  THEN IF includes(lowerName, S_assignment) \/ includes(lowerName, S_homework)
       THEN pushRule(st, <<S_document, S_assignment, S_work>>, S_Assignments)
       ELSE IF includes(lowerName, S_cover) /\ includes(lowerName, S_letter)
       THEN pushRule(st, <<S_document, S_work, S_application>>, S_Cover_Letters)
       ELSE IF includes(lowerName, S_job) \/ includes(lowerName, S_application)
       THEN pushRule(st, <<S_document, S_work, S_application>>,
                     S_Job_Applications)
       ELSE pushRule(st, <<S_document>>, S_Documents)
  ELSE st

\* if (lowerType.includes('pdf') || lowerType.includes('doc')) { ... }
documentRules(st, lowerName, lowerType) ==
  IF includes(lowerType, S_pdf) \/ includes(lowerType, S_doc)
  THEN IF includes(lowerName, S_resume) \/ includes(lowerName, S_cv)
       THEN pushRule(st, <<S_document, S_resume, S_personal>>, S_Resumes)
       ELSE IF includes(lowerName, S_assignment) \/ includes(lowerName, S_homework)
       THEN pushRule(st, <<S_document, S_assignment, S_work>>, S_Assignments)
       ELSE IF includes(lowerName, S_cover) /\ includes(lowerName, S_letter)
       THEN pushRule(st, <<S_document, S_work, S_application>>, S_Cover_Letters)
       ELSE IF includes(lowerName, S_job) \/ includes(lowerName, S_application)
       THEN pushRule(st, <<S_document, S_work, S_application>>,
                     S_Job_Applications)
       ELSE pushRule(st, <<S_document>>, S_Documents)
  ELSE st

\* if (lowerType.includes('image') || ... 'jpg' || ... 'png') { ... }
imageRules(st, lowerName, lowerType) ==
  IF includes(lowerType, S_image) \/ includes(lowerType, S_jpg)
     \/ includes(lowerType, S_png)
  THEN IF includes(lowerName, S_photo) \/ includes(lowerName, S_pic)
       THEN pushRule(st, <<S_image, S_photo>>, S_Photos)
       ELSE IF includes(lowerName, S_screenshot)
       THEN pushRule(st, <<S_image, S_screenshot>>, S_Screenshots)
       ELSE IF includes(lowerName, S_wallpaper) \/ includes(lowerName, S_background)
       THEN pushRule(st, <<S_image, S_wallpaper>>, S_Wallpapers)
       ELSE pushRule(st, <<S_image>>, S_Images)
  ELSE st

\* if (lowerType.includes('excel') || ... 'csv' || ... 'spreadsheet') { ... }
spreadsheetRules(st, lowerName, lowerType) ==
  IF includes(lowerType, S_excel) \/ includes(lowerType, S_csv)
     \/ includes(lowerType, S_spreadsheet)
  THEN IF includes(lowerName, S_customer) \/ includes(lowerName, S_client)
       THEN pushRule(st, <<S_spreadsheet, S_data, S_customer>>, S_Customer_Data)
       ELSE IF includes(lowerName, S_finance) \/ includes(lowerName, S_loan)
               \/ includes(lowerName, S_payment)
       THEN pushRule(st, <<S_spreadsheet, S_data, S_finance>>, S_Financial_Data)
       ELSE pushRule(st, <<S_spreadsheet, S_data>>, S_Spreadsheets)
  ELSE st

\* if (lowerType.includes('video') || lowerType.includes('mp4')) { ... }
videoRule(st, lowerType) ==
  IF includes(lowerType, S_video) \/ includes(lowerType, S_mp4)
  THEN pushRule(st, <<S_video>>, S_Videos)
  ELSE st

\* if (lowerName.includes('report')) tags.push('report')
reportRule(st, lowerName) ==
  IF includes(lowerName, S_report) THEN pushTags(st, <<S_report>>) ELSE st

\* if (lowerName.includes('invoice') || lowerName.includes('receipt')) { ... }
invoiceRule(st, lowerName) ==
  IF includes(lowerName, S_invoice) \/ includes(lowerName, S_receipt)
  THEN pushRule(st, <<S_finance>>, S_Financial_Documents)
  ELSE st

\* if (lowerName.includes('project')) { ... }
projectRule(st, lowerName) ==
  IF includes(lowerName, S_project)
  THEN pushRule(st, <<S_project>>, S_Projects)
  ELSE st

\* if (lowerName.includes('presentation') || lowerName.includes('ppt')) { ... }
presentationRule(st, lowerName) ==
  IF includes(lowerName, S_presentation) \/ includes(lowerName, S_ppt)
  THEN pushRule(st, <<S_presentation>>, S_Presentations)
  ELSE st

\* return { tags: tags.length > 0 ? tags : ['uncategorized'],
\* suggestedFolderName, confidence: 0.7 }
fallbackResult(st) ==
  [tags |-> IF Len(st.tags) > 0 THEN st.tags ELSE <<S_uncategorized>>,
   suggestedFolderName |-> st.suggestedFolderName,
   suggestedFileName |-> <<>>,
   confidence |-> FallbackConfidence]

\* the rules with those of the file name applied before those of the type
fallbackRulesNameRulesFirst(lowerName, lowerType) ==
  videoRule(
    spreadsheetRules(
      imageRules(
        documentRules(
          presentationRule(
            projectRule(
              invoiceRule(
                reportRule([tags |-> <<>>, suggestedFolderName |-> <<>>],
                           lowerName),
                lowerName),
              lowerName),
            lowerName),
          lowerName, lowerType),
        lowerName, lowerType),
      lowerName, lowerType),
    lowerType)

\* the rules applied in the order of the code
fallbackRules(lowerName, lowerType) ==
  presentationRule(
    projectRule(
      invoiceRule(
        reportRule(
          videoRule(
            spreadsheetRules(
              imageRules(
                documentRules([tags |-> <<>>, suggestedFolderName |-> <<>>],
                              lowerName, lowerType),
                lowerName, lowerType),
              lowerName, lowerType),
            lowerType),
          lowerName),
        lowerName),
      lowerName),
    lowerName)

\* generateFallbackTags
generateFallbackTags(fileName, fileType) ==
  fallbackResult(fallbackRules(toLowerCase(fileName), toLowerCase(fileType)))

\* what the AI request of generateFileTags comes to: the request throws, the
\* reply has no text, only whitespace, text that JSON.parse refuses, or text
\* that parses to data
AIFailures ==
  { [kind |-> "throws"], [kind |-> "empty"], [kind |-> "blank"],
    [kind |-> "malformed"] }

\* replies that parse
AIData ==
  { [tags |-> <<S_finance>>, suggestedFolderName |-> S_Invoices,
     suggestedFileName |-> <<>>, confidence |-> 9],
    [tags |-> <<S_finance, S_invoice>>, suggestedFolderName |-> S_invoices,
     suggestedFileName |-> <<>>, confidence |-> 8] }

AIOutcomes == AIFailures \cup { [kind |-> "json", data |-> d] : d \in AIData }

\* the characters String.prototype.trim removes
WhiteSpace == { " ", "\t", "\n", "\r" }

\* String.prototype.trim
trim(s) ==
  LET keep == { i \in 1..Len(s) : s[i] \notin WhiteSpace }
  IN IF keep = {} THEN <<>>
     ELSE SubSeq(s, CHOOSE i \in keep : \A j \in keep : i <= j,
                    CHOOSE i \in keep : \A j \in keep : j <= i)

\* response.text of a reply: nothing, whitespace, or the text of a document
\* that JSON.parse takes or refuses
responseText(ai) ==
  CASE ai.kind = "empty" -> <<>>
    [] ai.kind = "blank" -> <<" ", "\n">>
    [] ai.kind = "malformed" -> <<"{", "\n">>
    [] ai.kind = "json" -> <<"{", "}", "\n">>

\* JSON.parse(rawJson): the data of the reply, or a throw
JSONparse(ai) ==
  IF ai.kind = "json" THEN [threw |-> FALSE, data |-> ai.data]
  ELSE [threw |-> TRUE]

\* generateFileTags with the parse error leaving the function
generateFileTagsParseUncaught(fileName, fileType, ai) ==
  IF ai.kind = "malformed" THEN [threw |-> TRUE]
  ELSE IF ai.kind = "json" THEN ai.data
  ELSE generateFallbackTags(fileName, fileType)

\* generateFileTags: try { response = await ai.models.generateContent(...);
\* if (rawJson && rawJson.trim()) return JSON.parse(rawJson); else throw }
\* catch { return generateFallbackTags(fileName, fileType) }
generateFileTags(fileName, fileType, ai) ==
  IF ai.kind = "throws"
  THEN generateFallbackTags(fileName, fileType)
  ELSE LET rawJson == responseText(ai)
       IN IF rawJson # <<>> /\ trim(rawJson) # <<>>
          THEN IF JSONparse(ai).threw
               THEN generateFallbackTags(fileName, fileType)
               ELSE JSONparse(ai).data
          ELSE generateFallbackTags(fileName, fileType)

---------------------------------------------------------------------------
(* Probe of the tagging service on a file name, a MIME type and a reply of *)
(* the AI request                                                          *)

N_resume_john_pdf == <<"r","e","s","u","m","e","_","j","o","h","n",".","p","d","f">>
N_Invoice_Project_PPT ==
  <<"I","n","v","o","i","c","e","_","P","r","o","j","e","c","t",".","P","P","T">>
N_receipt_csv == <<"r","e","c","e","i","p","t",".","c","s","v">>
N_cover_letter_doc ==
  <<"c","o","v","e","r","_","l","e","t","t","e","r",".","d","o","c">>
N_screenshot_png == <<"s","c","r","e","e","n","s","h","o","t",".","p","n","g">>
N_loan_report_xls == <<"l","o","a","n","_","r","e","p","o","r","t",".","x","l","s">>
N_clip_mp4 == <<"c","l","i","p",".","m","p","4">>
N_finance_invoice_csv ==
  <<"f","i","n","a","n","c","e","_","i","n","v","o","i","c","e",".","c","s","v">>

T_text_csv == <<"t","e","x","t","/","c","s","v">>
T_video_mp4 == <<"v","i","d","e","o","/","m","p","4">>
T_IMAGE_PNG == <<"I","M","A","G","E","/","P","N","G">>
T_image_pdf == <<"i","m","a","g","e","/","p","d","f">>
T_application_msexcel ==
  <<"a","p","p","l","i","c","a","t","i","o","n","/","v","n","d",".",
    "m","s","-","e","x","c","e","l">>

S_Finance == <<"F","i","n","a","n","c","e">>

TagNames ==
  { N_resume_john_pdf, N_Invoice_Project_PPT, N_receipt_csv,
    N_cover_letter_doc, N_screenshot_png, N_loan_report_xls, N_clip_mp4,
    N_photo_jpg, N_notes_md, N_report_q1_pdf, N_finance_invoice_csv }

TagTypes ==
  { T_application_pdf, T_image_jpeg, T_text_plain, T_text_csv, T_video_mp4,
    T_IMAGE_PNG, T_image_pdf, T_application_msexcel }

\* replies that parse, for the probe: those above, a reply with an empty tags
\* array, a reply without tags, and a reply with a tag in capitals
TagAIData ==
  AIData \cup
  { [tags |-> <<>>, suggestedFolderName |-> S_Invoices,
     suggestedFileName |-> <<>>, confidence |-> 5],
    [suggestedFolderName |-> <<>>, suggestedFileName |-> <<>>, confidence |-> 5],
    [tags |-> <<S_Finance>>, suggestedFolderName |-> <<>>,
     suggestedFileName |-> <<>>, confidence |-> 9] }

TagAIOutcomes ==
  AIFailures \cup { [kind |-> "json", data |-> d] : d \in TagAIData }

InitTagging ==
  /\ files = <<>>
  /\ folders = <<>>
  /\ clock = 0
  /\ req = <<>>
  /\ budget = 0
  /\ pin \in [fileName : TagNames, fileType : TagTypes, ai : TagAIOutcomes]
  /\ pout = NoProbe
  /\ objects = {}

TaggingProbe ==
  /\ pout = NoProbe
  /\ pout' = [kind |-> "tagging",
              result |-> generateFileTags(pin.fileName, pin.fileType, pin.ai),
              fallback |-> generateFallbackTags(pin.fileName, pin.fileType)]
  /\ UNCHANGED <<files, folders, clock, req, budget, pin, objects>>

NextTagging == TaggingProbe

SpecTagging == InitTagging /\ [][NextTagging]_vars

---------------------------------------------------------------------------
(* POST /api/organize-files                                                *)

E_OrganizeFailed == "Failed to organize files"

\* the first file at or after index i the loop does not skip:
\* if (file.folderId || file.folder_id) continue
nextUnfoldered(fileList, i) ==
  LET rest == { j \in i..Len(fileList) : fileList[j].folder_id = 0 }
  IN IF rest = {} THEN Len(fileList) + 1
     ELSE CHOOSE j \in rest : \A k \in rest : j <= k

\* the loop from index i up to its next await, or past its end to
\* res.json({ success, foldersCreated, filesMoved, message })
organizeLoop(r, i) ==
  LET j == nextUnfoldered(r.fileList, i)
  IN IF j <= Len(r.fileList)
     THEN [r EXCEPT !.pc = "generateFileTags", !.i = j]
     ELSE respond([r EXCEPT !.i = j], 200,
                  [success |-> TRUE, foldersCreated |-> r.created,
                   filesMoved |-> r.moved])

\* allFolders.find(folder => folder.name.toLowerCase() ===
\* suggestedFolderName.toLowerCase()) with the comparison of the names as
\* they are
findFolderExact(allFolders, suggestedFolderName) ==
  LET hit == { k \in DOMAIN allFolders : allFolders[k].name = suggestedFolderName }
  IN IF hit = {} THEN NoRow
     ELSE allFolders[CHOOSE k \in hit : \A j \in hit : k <= j]

\* allFolders.find(folder => folder.name.toLowerCase() ===
\* aiTagging.suggestedFolderName.toLowerCase()): the first such folder
findFolder(allFolders, suggestedFolderName) ==
  LET hit == { k \in DOMAIN allFolders :
                 toLowerCase(allFolders[k].name) = toLowerCase(suggestedFolderName) }
  IN IF hit = {} THEN NoRow
     ELSE allFolders[CHOOSE k \in hit : \A j \in hit : k <= j]

\* insertFolderSchema.parse({ name, isAiGenerated: true, userId })
newFolderData(suggestedFolderName, userId) ==
  [name |-> suggestedFolderName, parentId |-> 0, userId |-> userId,
   isAiGenerated |-> TRUE]

\* the updates object of the move: { folderId: existingFolder.id, tags }
organizeUpdates(existingFolder, aiTagging) ==
  [folderId |-> existingFolder.id, tags |-> aiTagging.tags]

OrganizeStart ==
  \E p \in DOMAIN req, userId \in Users :
     /\ CanStart(p)
     /\ budget' = budget - 1
     /\ req' = [req EXCEPT ![p] =
                  [kind |-> "organize", pc |-> "getAllFiles", userId |-> userId,
                   fileList |-> <<>>, listed |-> FALSE, i |-> 1,
                   aiTagging |-> <<>>, existingFolder |-> NoRow,
                   created |-> 0, moved |-> 0,
                   tagged |-> <<>>, createdFolders |-> <<>>, moves |-> <<>>,
                   status |-> 0, body |-> <<>>,
                   files0 |-> files, folders0 |-> folders]]
     /\ UNCHANGED <<files, folders, clock, pin, pout, objects>>

\* const files = await storage.getAllFiles(...); a throw leaves the handler
\* through its catch
OrganizeGetAllFiles ==
  \E p \in DOMAIN req, ok \in BOOLEAN :
     /\ req[p].kind = "organize" /\ req[p].pc = "getAllFiles"
     /\ LET r == req[p]
        IN req' = [req EXCEPT ![p] =
                     IF ok
                     THEN organizeLoop(
                            [r EXCEPT !.fileList = getAllFiles(files, r.userId),
                                      !.listed = TRUE], 1)
                     ELSE respond(r, 500, [error |-> E_OrganizeFailed])]
     /\ UNCHANGED <<files, folders, clock, budget, pin, pout, objects>>

\* const aiTagging = await generateFileTags(original_name, file_type);
\* if (aiTagging.suggestedFolderName) { ... }.  tagged records the file,
\* the suggestion and the tags.
OrganizeGenerateFileTags ==
  \E p \in DOMAIN req, ai \in AIOutcomes :
     /\ req[p].kind = "organize" /\ req[p].pc = "generateFileTags"
     /\ LET r == req[p]
            file == r.fileList[r.i]
            aiTagging == generateFileTags(file.original_name, file.file_type, ai)
            r1 == [r EXCEPT !.aiTagging = aiTagging,
                            !.tagged =
                               Append(r.tagged,
                                      [id |-> file.id,
                                       suggestedFolderName |->
                                          aiTagging.suggestedFolderName,
                                       tags |-> aiTagging.tags])]
        IN req' = [req EXCEPT ![p] =
                     IF aiTagging.suggestedFolderName # <<>>
                     THEN [r1 EXCEPT !.pc = "getAllFolders"]
                     ELSE organizeLoop(r1, r.i + 1)]
     /\ UNCHANGED <<files, folders, clock, budget, pin, pout, objects>>

\* const allFolders = await storage.getAllFolders(...); the find; the
\* parse of the new folder's data when none is found
OrganizeGetAllFolders ==
  \E p \in DOMAIN req, ok \in BOOLEAN :
     /\ req[p].kind = "organize" /\ req[p].pc = "getAllFolders"
     /\ LET r == req[p]
            existingFolder ==
              findFolder(getAllFolders(folders, r.userId),
                         r.aiTagging.suggestedFolderName)
        IN req' = [req EXCEPT ![p] =
                     IF ~ok
                     THEN respond(r, 500, [error |-> E_OrganizeFailed])
                     ELSE IF existingFolder = NoRow
                     THEN [r EXCEPT !.pc = "createFolder"]
                     ELSE [r EXCEPT !.pc = "updateFile",
                                    !.existingFolder = existingFolder]]
     /\ UNCHANGED <<files, folders, clock, budget, pin, pout, objects>>

\* existingFolder = await storage.createFolder(newFolderData, ...);
\* organizedCount.created++
OrganizeCreateFolder ==
  \E p \in DOMAIN req, ok \in BOOLEAN :
     /\ req[p].kind = "organize" /\ req[p].pc = "createFolder"
     /\ LET r == req[p]
            row == folderRow(newFolderData(r.aiTagging.suggestedFolderName,
                                           r.userId), clock + 1)
        IN IF ok
           THEN /\ folders' = Append(folders, row)
                /\ clock' = clock + 1
                /\ req' = [req EXCEPT ![p] =
                             [r EXCEPT !.pc = "updateFile",
                                       !.existingFolder = row,
                                       !.created = r.created + 1,
                                       !.createdFolders =
                                          Append(r.createdFolders, row.id)]]
           ELSE /\ req' = [req EXCEPT ![p] =
                             respond(r, 500, [error |-> E_OrganizeFailed])]
                /\ UNCHANGED <<folders, clock>>
     /\ UNCHANGED <<files, budget, pin, pout, objects>>

\* await storage.updateFile(file.id, { folderId, tags }, ...);
\* organizedCount.moved++; the result of the call is not looked at.
\* moves records the call and whether the store made the update.
OrganizeUpdateFile ==
  \E p \in DOMAIN req, outcome \in CallOutcomes :
     /\ req[p].kind = "organize" /\ req[p].pc = "updateFile"
     /\ LET r == req[p]
            file == r.fileList[r.i]
            res == IF outcome = "ok"
                   THEN updateFile(files, file.id,
                                   organizeUpdates(r.existingFolder, r.aiTagging),
                                   r.userId)
                   ELSE [files |-> files, data |-> NoRow]
        IN /\ files' = res.files
           /\ req' = [req EXCEPT ![p] =
                        IF outcome = "throw"
                        THEN respond(r, 500, [error |-> E_OrganizeFailed])
                        ELSE organizeLoop(
                               [r EXCEPT !.moved = r.moved + 1,
                                         !.moves =
                                            Append(r.moves,
                                                   [id |-> file.id,
                                                    updated |-> res.data # NoRow])],
                               r.i + 1)]
     /\ UNCHANGED <<folders, clock, budget, pin, pout, objects>>

---------------------------------------------------------------------------
(* Stores the organize-files requests are run against                      *)

\* organize-files requests in one behaviour
OrganizeRequests == 1

\* the uploads the stores are made of, in the order they are made in
OrgInserts ==
  << insertFileOf(N_photo_jpg, T_image_jpeg, "u1", <<Tag_old>>, 0),
     insertFileOf(N_report_q1_pdf, T_application_pdf, "u1", <<Tag_finance>>, 1),
     insertFileOf(N_notes_md, T_text_plain, "u1", <<Tag_old>>, 0),
     insertFileOf(N_photo_jpg, T_image_jpeg, "u2", <<>>, 0) >>

\* folders made through POST /api/folders before the run
OrgFolders ==
  { <<>>,
    <<[name |-> S_invoices, parentId |-> 0, userId |-> "u1",
       isAiGenerated |-> FALSE]>>,
    <<[name |-> S_Photos, parentId |-> 0, userId |-> "u2",
       isAiGenerated |-> FALSE]>>,
    <<[name |-> S_invoices, parentId |-> 0, userId |-> "u1",
       isAiGenerated |-> FALSE],
      [name |-> S_Photos, parentId |-> 0, userId |-> "u2",
       isAiGenerated |-> FALSE]>> }

\* a store of up to MaxFiles of these uploads, any of them more than once,
\* and the folders made before the run
InitOrganize ==
  /\ \E more \in OrgFolders :
       folders = [k \in 1..(1 + Len(more)) |->
                    folderRow((<<[name |-> N_Work, parentId |-> 0,
                                  userId |-> "u1", isAiGenerated |-> FALSE]>>
                               \o more)[k], k)]
  /\ \E n \in 0..MaxFiles :
       \E ins \in [1..n -> DOMAIN OrgInserts] :
          /\ \A i, j \in 1..n : i <= j => ins[i] <= ins[j]
          /\ files = [i \in 1..n |->
                        fileRow([OrgInserts[ins[i]] EXCEPT !.storagePath =
                                   uploadPath(i, OrgInserts[ins[i]].originalName)],
                                Len(folders) + i)]
  /\ clock = Len(folders) + Len(files)
  /\ req = [p \in {1} |-> Idle]
  /\ budget = OrganizeRequests
  /\ pin = NoProbe
  /\ pout = NoProbe
  /\ objects = { files[i].storage_path : i \in DOMAIN files }

NextOrganize ==
  \/ OrganizeStart
  \/ OrganizeGetAllFiles
  \/ OrganizeGenerateFileTags
  \/ OrganizeGetAllFolders
  \/ OrganizeCreateFolder
  \/ OrganizeUpdateFile

SpecOrganize == InitOrganize /\ [][NextOrganize]_vars

---------------------------------------------------------------------------
(* The object store: bucket file-storage                                   *)

\* SupabaseStorageService.deleteFile: remove([path]); an error and a throw
\* are both answered with false, and the bucket is as it was
removeObject(bucket, path, outcome) ==
  IF outcome = "ok"
  THEN [objects |-> bucket \ {path}, removed |-> TRUE]
  ELSE [objects |-> bucket, removed |-> FALSE]

\* SupabaseStorage.deleteFile: .delete().eq(id).eq(user_id); returns !error
deleteFile(tbl, id, userId) ==
  SelectSeq(tbl, LAMBDA r : ~(r.id = id /\ r.user_id = userId))

---------------------------------------------------------------------------
(* PATCH /api/files/:id/tags                                               *)

E_TagsNotArray == "Tags must be an array"
E_UpdateTagsFailed == "Failed to update tags"

\* the tags of a request body: arrays of tags, and a value that is no array
PatchBodies ==
  { [isArray |-> TRUE, tags |-> <<>>],
    [isArray |-> TRUE, tags |-> <<Tag_photo, Tag_old>>],
    [isArray |-> FALSE, tags |-> Tag_photo] }

\* the handler up to its await: if (!Array.isArray(tags)) 400
PatchStart ==
  \E p \in DOMAIN req, userId \in Users, id \in 1..(clock + 1),
     body \in PatchBodies :
     /\ CanStart(p)
     /\ budget' = budget - 1
     /\ LET r == [kind |-> "patch", pc |-> "updateFile", userId |-> userId,
                  id |-> id, tags |-> body.tags, isArray |-> body.isArray,
                  calls |-> <<>>, failed |-> {}, threw |-> FALSE,
                  status |-> 0, body |-> <<>>,
                  files0 |-> files, folders0 |-> folders, objects0 |-> objects]
        IN req' = [req EXCEPT ![p] =
                     IF body.isArray THEN r
                     ELSE respond(r, 400, [error |-> E_TagsNotArray])]
     /\ UNCHANGED <<files, folders, clock, pin, pout, objects>>

\* const updatedFile = await storage.updateFile(id, { tags }, ...);
\* if (!updatedFile) 404; res.json(updatedFile)
PatchUpdateFile ==
  \E p \in DOMAIN req, outcome \in CallOutcomes :
     /\ req[p].kind = "patch" /\ req[p].pc = "updateFile"
     /\ LET r == req[p]
            res == IF outcome = "ok"
                   THEN updateFile(files, r.id, [tags |-> r.tags], r.userId)
                   ELSE [files |-> files, data |-> NoRow]
            r1 == [r EXCEPT !.calls = Append(r.calls, "updateFile"),
                            !.failed = IF outcome = "ok" THEN r.failed
                                       ELSE r.failed \cup {"updateFile"},
                            !.threw = (outcome = "throw")]
        IN /\ files' = res.files
           /\ req' = [req EXCEPT ![p] =
                        IF outcome = "throw"
                        THEN respond(r1, 500, [error |-> E_UpdateTagsFailed])
                        ELSE IF res.data = NoRow
                        THEN respond(r1, 404, [error |-> E_FileNotFound])
                        ELSE respond(r1, 200, res.data)]
     /\ UNCHANGED <<folders, clock, budget, pin, pout, objects>>

---------------------------------------------------------------------------
(* POST /api/files/:id/reprocess                                           *)

E_ReprocessFailed == "Failed to reprocess file"

\* the updates object of reprocess: { tags, displayName, metadata }
reprocessUpdates(file, aiTagging) ==
  [tags |-> aiTagging.tags,
   displayName |-> IF aiTagging.suggestedFileName # <<>>
                   THEN aiTagging.suggestedFileName ELSE file.display_name,
   metadata |-> [file.metadata EXCEPT
                   !.confidence = aiTagging.confidence,
                   !.suggestedFolderName = aiTagging.suggestedFolderName]]

ReprocessStart ==
  \E p \in DOMAIN req, userId \in Users, id \in 1..(clock + 1) :
     /\ CanStart(p)
     /\ budget' = budget - 1
     /\ req' = [req EXCEPT ![p] =
                  [kind |-> "reprocess", pc |-> "getFile", userId |-> userId,
                   id |-> id, file |-> NoRow, aiTagging |-> <<>>,
                   calls |-> <<>>, failed |-> {}, threw |-> FALSE,
                   status |-> 0, body |-> <<>>,
                   files0 |-> files, folders0 |-> folders,
                   objects0 |-> objects]]
     /\ UNCHANGED <<files, folders, clock, pin, pout, objects>>

\* const file = await storage.getFile(...); if (!file) 404
ReprocessGetFile ==
  \E p \in DOMAIN req, ok \in BOOLEAN :
     /\ req[p].kind = "reprocess" /\ req[p].pc = "getFile"
     /\ LET r == req[p]
            file == IF ok THEN getFile(files, r.id, r.userId) ELSE NoRow
            r1 == [r EXCEPT !.calls = Append(r.calls, "getFile"),
                            !.failed = IF ok THEN r.failed
                                       ELSE r.failed \cup {"getFile"}]
        IN req' = [req EXCEPT ![p] =
                     IF file = NoRow
                     THEN respond(r1, 404, [error |-> E_FileNotFound])
                     ELSE [r1 EXCEPT !.pc = "generateFileTags", !.file = file]]
     /\ UNCHANGED <<files, folders, clock, budget, pin, pout, objects>>

\* const aiTagging = await generateFileTags(original_name, file_type)
ReprocessGenerateFileTags ==
  \E p \in DOMAIN req, ai \in AIOutcomes :
     /\ req[p].kind = "reprocess" /\ req[p].pc = "generateFileTags"
     /\ LET r == req[p]
        IN req' = [req EXCEPT ![p] =
                     [r EXCEPT !.pc = "updateFile",
                               !.calls = Append(r.calls, "generateFileTags"),
                               !.aiTagging =
                                  generateFileTags(r.file.original_name,
                                                   r.file.file_type, ai)]]
     /\ UNCHANGED <<files, folders, clock, budget, pin, pout, objects>>

\* const updatedFile = await storage.updateFile(id, { tags, displayName,
\* metadata }, ...); res.json(updatedFile), whatever updatedFile is
ReprocessUpdateFile ==
  \E p \in DOMAIN req, outcome \in CallOutcomes :
     /\ req[p].kind = "reprocess" /\ req[p].pc = "updateFile"
     /\ LET r == req[p]
            res == IF outcome = "ok"
                   THEN updateFile(files, r.id,
                                   reprocessUpdates(r.file, r.aiTagging),
                                   r.userId)
                   ELSE [files |-> files, data |-> NoRow]
            r1 == [r EXCEPT !.calls = Append(r.calls, "updateFile"),
                            !.failed = IF outcome = "ok" THEN r.failed
                                       ELSE r.failed \cup {"updateFile"},
                            !.threw = (outcome = "throw")]
        IN /\ files' = res.files
           /\ req' = [req EXCEPT ![p] =
                        IF outcome = "throw"
                        THEN respond(r1, 500, [error |-> E_ReprocessFailed])
                        ELSE respond(r1, 200, res.data)]
     /\ UNCHANGED <<folders, clock, budget, pin, pout, objects>>

---------------------------------------------------------------------------
(* DELETE /api/files/:id                                                   *)

E_DeleteFailed == "Failed to delete file"

\* the handler's calls after getFile with the record deleted first
deleteNextRecordFirst(pc) ==
  CASE pc = "getFile" -> "storage.deleteFile"
    [] pc = "storage.deleteFile" -> "supabaseStorage.deleteFile"
    [] pc = "supabaseStorage.deleteFile" -> "done"

\* the order of the handler's calls: getFile, supabaseStorage.deleteFile,
\* storage.deleteFile, res.json
deleteNext(pc) ==
  CASE pc = "getFile" -> "supabaseStorage.deleteFile"
    [] pc = "supabaseStorage.deleteFile" -> "storage.deleteFile"
    [] pc = "storage.deleteFile" -> "done"

\* the handler moves on to its next call, or answers { success: true }
deleteAdvance(r) ==
  IF deleteNext(r.pc) = "done"
  THEN respond(r, 200, [success |-> TRUE])
  ELSE [r EXCEPT !.pc = deleteNext(r.pc)]

DeleteStart ==
  \E p \in DOMAIN req, userId \in Users, id \in 1..(clock + 1) :
     /\ CanStart(p)
     /\ budget' = budget - 1
     /\ req' = [req EXCEPT ![p] =
                  [kind |-> "delete", pc |-> "getFile", userId |-> userId,
                   id |-> id, file |-> NoRow,
                   calls |-> <<>>, failed |-> {}, threw |-> FALSE,
                   status |-> 0, body |-> <<>>,
                   files0 |-> files, folders0 |-> folders,
                   objects0 |-> objects]]
     /\ UNCHANGED <<files, folders, clock, pin, pout, objects>>

\* const file = await storage.getFile(...); if (!file) 404
DeleteGetFile ==
  \E p \in DOMAIN req, ok \in BOOLEAN :
     /\ req[p].kind = "delete" /\ req[p].pc = "getFile"
     /\ LET r == req[p]
            file == IF ok THEN getFile(files, r.id, r.userId) ELSE NoRow
            r1 == [r EXCEPT !.calls = Append(r.calls, "getFile"),
                            !.failed = IF ok THEN r.failed
                                       ELSE r.failed \cup {"getFile"}]
        IN req' = [req EXCEPT ![p] =
                     IF file = NoRow
                     THEN respond(r1, 404, [error |-> E_FileNotFound])
                     ELSE deleteAdvance([r1 EXCEPT !.file = file])]
     /\ UNCHANGED <<files, folders, clock, budget, pin, pout, objects>>

\* await supabaseStorage.deleteFile(file.storage_path, ...); its boolean is
\* not looked at
DeleteStorageObject ==
  \E p \in DOMAIN req, outcome \in CallOutcomes :
     /\ req[p].kind = "delete" /\ req[p].pc = "supabaseStorage.deleteFile"
     /\ LET r == req[p]
            res == removeObject(objects, r.file.storage_path, outcome)
        IN /\ objects' = res.objects
           /\ req' = [req EXCEPT ![p] =
                        deleteAdvance(
                          [r EXCEPT !.calls =
                                       Append(r.calls, "supabaseStorage.deleteFile"),
                                    !.failed =
                                       IF res.removed THEN r.failed
                                       ELSE r.failed
                                            \cup {"supabaseStorage.deleteFile"}])]
     /\ UNCHANGED <<files, folders, clock, budget, pin, pout>>

\* await storage.deleteFile(id, ...); its boolean is not looked at
DeleteRecord ==
  \E p \in DOMAIN req, outcome \in CallOutcomes :
     /\ req[p].kind = "delete" /\ req[p].pc = "storage.deleteFile"
     /\ LET r == req[p]
            r1 == [r EXCEPT !.calls = Append(r.calls, "storage.deleteFile"),
                            !.failed = IF outcome = "ok" THEN r.failed
                                       ELSE r.failed \cup {"storage.deleteFile"},
                            !.threw = (outcome = "throw")]
        IN /\ files' = IF outcome = "ok" THEN deleteFile(files, r.id, r.userId)
                       ELSE files
           /\ req' = [req EXCEPT ![p] =
                        IF outcome = "throw"
                        THEN respond(r1, 500, [error |-> E_DeleteFailed])
                        ELSE deleteAdvance(r1)]
     /\ UNCHANGED <<folders, clock, budget, pin, pout, objects>>

---------------------------------------------------------------------------
(* The routes on one file id: retag, reprocess, apply-to-similar, delete   *)

\* requests on a file id in one behaviour
FileRequests == 1

\* the uploads the stores are made of
FileInserts ==
  { insertFileOf(N_report_q1_pdf, T_application_pdf, "u1", <<Tag_finance>>, 0),
    insertFileOf(N_report_q2_pdf, T_application_pdf, "u1", <<Tag_old>>, 1),
    insertFileOf(N_photo_jpg, T_image_jpeg, "u2", <<Tag_photo>>, 0) }

\* a store of up to MaxFiles of these uploads, each at most once, in any
\* order of upload, one folder, and the objects of the files in the bucket
InitFiles ==
  /\ folders = <<folderRow([name |-> N_Work, parentId |-> 0, userId |-> "u1",
                            isAiGenerated |-> FALSE], 1)>>
  /\ \E n \in 0..MaxFiles :
       \E ins \in [1..n -> FileInserts] :
          /\ \A i, j \in 1..n : ins[i] = ins[j] => i = j
          /\ files = [i \in 1..n |->
                        fileRow([ins[i] EXCEPT !.storagePath =
                                   uploadPath(i, ins[i].originalName)], i + 1)]
  /\ clock = Len(files) + 1
  /\ req = [p \in {1} |-> Idle]
  /\ budget = FileRequests
  /\ pin = NoProbe
  /\ pout = NoProbe
  /\ objects = { files[i].storage_path : i \in DOMAIN files }

NextFiles ==
  \/ PatchStart
  \/ PatchUpdateFile
  \/ ReprocessStart
  \/ ReprocessGetFile
  \/ ReprocessGenerateFileTags
  \/ ReprocessUpdateFile
  \/ SimilarStart
  \/ SimilarGetFile
  \/ SimilarGetAllFiles
  \/ SimilarUpdateFile
  \/ DeleteStart
  \/ DeleteGetFile
  \/ DeleteStorageObject
  \/ DeleteRecord

SpecFiles == InitFiles /\ [][NextFiles]_vars

---------------------------------------------------------------------------
(* POST /api/files/upload, POST /api/files/upload-multiple,                *)
(* POST /api/folders                                                       *)

E_NoFile == "No file provided"
E_UploadFailed == "Failed to upload file"
E_NoFiles == "No files provided"
E_CreateFolderFailed == "Failed to create folder"
E_InvalidFolder == "Invalid folder data"

\* folder_id UUID REFERENCES folders(id): the store takes a file row whose
\* folder_id is null or the id of a row of folders, whoever owns that row
createFileAccepted(folderTbl, insertFile) ==
  insertFile.folderId = 0
  \/ \E k \in DOMAIN folderTbl : folderTbl[k].id = insertFile.folderId

\* parent_id UUID REFERENCES folders(id)
createFolderAccepted(folderTbl, insertFolder) ==
  insertFolder.parentId = 0
  \/ \E k \in DOMAIN folderTbl : folderTbl[k].id = insertFolder.parentId

\* insertFileSchema.parse({ originalName, displayName, fileType, fileSize,
\* storagePath, userId, tags, aiGenerated: true, folderId, metadata })
uploadFileData(file, userId, storagePath, aiTagging, targetFolderId) ==
  [originalName |-> file.name,
   displayName |-> IF aiTagging.suggestedFileName # <<>>
                   THEN aiTagging.suggestedFileName ELSE file.name,
   fileType |-> file.type, fileSize |-> Len(file.name),
   storagePath |-> storagePath, userId |-> userId,
   tags |-> aiTagging.tags, aiGenerated |-> TRUE,
   folderId |-> targetFolderId,
   metadata |-> [url |-> <<>>, confidence |-> aiTagging.confidence,
                 suggestedFolderName |-> aiTagging.suggestedFolderName]]

\* let targetFolderId = folderId;
\* if (!folderId && aiTagging.suggestedFolderName) look for the folder
uploadAfterTags(r, aiTagging) ==
  IF r.folderId = 0 /\ aiTagging.suggestedFolderName # <<>>
  THEN [r EXCEPT !.pc = "getAllFolders", !.aiTagging = aiTagging,
                 !.targetFolderId = r.folderId]
  ELSE [r EXCEPT !.pc = "createFile", !.aiTagging = aiTagging,
                 !.targetFolderId = r.folderId]

\* the find in allFolders: targetFolderId = existingFolder.id, or the folder
\* is still to be made
uploadAfterFolders(r, allFolders) ==
  LET existingFolder == findFolder(allFolders, r.aiTagging.suggestedFolderName)
  IN IF existingFolder = NoRow
     THEN [r EXCEPT !.pc = "createFolder"]
     ELSE [r EXCEPT !.pc = "createFile", !.targetFolderId = existingFolder.id]

\* files a request can carry
UploadPool ==
  { [name |-> N_photo_jpg, type |-> T_image_jpeg],
    [name |-> N_notes_md, type |-> T_text_plain] }

\* a request without a file
NoFile == [name |-> <<>>, type |-> <<>>]

\* the handler up to its await: if (!req.file) 400; const { folderId } =
\* req.body, the id of any row or nothing
UploadStart ==
  \E p \in DOMAIN req, userId \in Users, file \in UploadPool \cup {NoFile},
     folderId \in 0..clock :
     /\ CanStart(p)
     /\ budget' = budget - 1
     /\ LET r == [kind |-> "upload", pc |-> "uploadFile", userId |-> userId,
                  file |-> file, folderId |-> folderId,
                  storagePath |-> uploadPath(0, file.name),
                  aiTagging |-> <<>>, targetFolderId |-> 0,
                  status |-> 0, body |-> <<>>,
                  files0 |-> files, folders0 |-> folders, objects0 |-> objects]
        IN req' = [req EXCEPT ![p] =
                     IF file = NoFile
                     THEN respond(r, 400, [error |-> E_NoFile])
                     ELSE r]
     /\ UNCHANGED <<files, folders, clock, pin, pout, objects>>

\* const { path: storagePath, url } = await supabaseStorage.uploadFile(...);
\* it throws when the bucket refuses
UploadUploadFile ==
  \E p \in DOMAIN req, ok \in BOOLEAN :
     /\ req[p].kind = "upload" /\ req[p].pc = "uploadFile"
     /\ LET r == req[p]
            path == uploadPath(clock + 1, r.file.name)
        IN IF ok
           THEN /\ objects' = objects \cup {path}
                /\ clock' = clock + 1
                /\ req' = [req EXCEPT ![p] =
                             [r EXCEPT !.pc = "generateFileTags",
                                       !.storagePath = path]]
           ELSE /\ req' = [req EXCEPT ![p] =
                             respond(r, 500, [error |-> E_UploadFailed])]
                /\ UNCHANGED <<objects, clock>>
     /\ UNCHANGED <<files, folders, budget, pin, pout>>

\* const aiTagging = await generateFileTags(originalname, mimetype)
UploadGenerateFileTags ==
  \E p \in DOMAIN req, ai \in AIOutcomes :
     /\ req[p].kind = "upload" /\ req[p].pc = "generateFileTags"
     /\ req' = [req EXCEPT ![p] =
                  uploadAfterTags(req[p],
                                  generateFileTags(req[p].file.name,
                                                   req[p].file.type, ai))]
     /\ UNCHANGED <<files, folders, clock, budget, pin, pout, objects>>

\* const allFolders = await storage.getAllFolders(...); the find
UploadGetAllFolders ==
  \E p \in DOMAIN req, ok \in BOOLEAN :
     /\ req[p].kind = "upload" /\ req[p].pc = "getAllFolders"
     /\ req' = [req EXCEPT ![p] =
                  IF ok
                  THEN uploadAfterFolders(req[p],
                                          getAllFolders(folders, req[p].userId))
                  ELSE respond(req[p], 500, [error |-> E_UploadFailed])]
     /\ UNCHANGED <<files, folders, clock, budget, pin, pout, objects>>

\* existingFolder = await storage.createFolder(newFolderData, ...);
\* targetFolderId = existingFolder.id
UploadCreateFolder ==
  \E p \in DOMAIN req, ok \in BOOLEAN :
     /\ req[p].kind = "upload" /\ req[p].pc = "createFolder"
     /\ LET r == req[p]
            row == folderRow(newFolderData(r.aiTagging.suggestedFolderName,
                                           r.userId), clock + 1)
        IN IF ok
           THEN /\ folders' = Append(folders, row)
                /\ clock' = clock + 1
                /\ req' = [req EXCEPT ![p] =
                             [r EXCEPT !.pc = "createFile",
                                       !.targetFolderId = row.id]]
           ELSE /\ req' = [req EXCEPT ![p] =
                             respond(r, 500, [error |-> E_UploadFailed])]
                /\ UNCHANGED <<folders, clock>>
     /\ UNCHANGED <<files, budget, pin, pout, objects>>

\* const createdFile = await storage.createFile(fileData, ...);
\* res.json(createdFile)
UploadCreateFile ==
  \E p \in DOMAIN req, ok \in BOOLEAN :
     /\ req[p].kind = "upload" /\ req[p].pc = "createFile"
     /\ LET r == req[p]
            fileData == uploadFileData(r.file, r.userId, r.storagePath,
                                       r.aiTagging, r.targetFolderId)
            row == fileRow(fileData, clock + 1)
        IN IF ok /\ createFileAccepted(folders, fileData)
           THEN /\ files' = Append(files, row)
                /\ clock' = clock + 1
                /\ req' = [req EXCEPT ![p] = respond(r, 200, row)]
           ELSE /\ req' = [req EXCEPT ![p] =
                             respond(r, 500, [error |-> E_UploadFailed])]
                /\ UNCHANGED <<files, clock>>
     /\ UNCHANGED <<folders, budget, pin, pout, objects>>

\* req.files: an array of no file, of one file or of two
UploadBatches ==
  { <<>>,
    <<[name |-> N_photo_jpg, type |-> T_image_jpeg]>>,
    <<[name |-> N_notes_md, type |-> T_text_plain],
      [name |-> N_photo_jpg, type |-> T_image_jpeg]>> }

\* for (const file of req.files) from index i up to its first await, or
\* past the end to res.json(uploadedFiles)
multiLoop(r, i) ==
  IF i <= Len(r.batch)
  THEN [r EXCEPT !.pc = "uploadFile", !.i = i]
  ELSE respond([r EXCEPT !.i = i], 200, r.uploadedFiles)

\* the catch of the loop body ending the request with what was uploaded
multiCatchEnds(r) == respond(r, 200, r.uploadedFiles)

\* catch (error) { console.error(...) } inside the loop: on to the next file
multiCatch(r) == multiLoop(r, r.i + 1)

\* the handler up to its first await: if (!req.files || !Array.isArray) 400
MultiStart ==
  \E p \in DOMAIN req, userId \in Users, hasFiles \in BOOLEAN,
     batch \in UploadBatches, folderId \in 0..clock :
     /\ CanStart(p)
     /\ hasFiles \/ (batch = <<>> /\ folderId = 0)
     /\ budget' = budget - 1
     /\ LET r == [kind |-> "uploadMultiple", pc |-> "uploadFile",
                  userId |-> userId, batch |-> batch, i |-> 1,
                  folderId |-> folderId, storagePath |-> uploadPath(0, <<>>),
                  aiTagging |-> <<>>, targetFolderId |-> 0,
                  uploadedFiles |-> <<>>, tried |-> <<>>,
                  status |-> 0, body |-> <<>>,
                  files0 |-> files, folders0 |-> folders, objects0 |-> objects]
        IN req' = [req EXCEPT ![p] =
                     IF hasFiles THEN multiLoop(r, 1)
                     ELSE respond(r, 400, [error |-> E_NoFiles])]
     /\ UNCHANGED <<files, folders, clock, pin, pout, objects>>

\* await supabaseStorage.uploadFile(...) in the loop; a throw is caught and
\* the loop goes on to the next file.  tried records the files the loop
\* has come to.
MultiUploadFile ==
  \E p \in DOMAIN req, ok \in BOOLEAN :
     /\ req[p].kind = "uploadMultiple" /\ req[p].pc = "uploadFile"
     /\ LET r == [req[p] EXCEPT !.tried = Append(req[p].tried, req[p].i)]
            path == uploadPath(clock + 1, r.batch[r.i].name)
        IN IF ok
           THEN /\ objects' = objects \cup {path}
                /\ clock' = clock + 1
                /\ req' = [req EXCEPT ![p] =
                             [r EXCEPT !.pc = "generateFileTags",
                                       !.storagePath = path]]
           ELSE /\ req' = [req EXCEPT ![p] = multiCatch(r)]
                /\ UNCHANGED <<objects, clock>>
     /\ UNCHANGED <<files, folders, budget, pin, pout>>

\* const aiTagging = await generateFileTags(...) in the loop
MultiGenerateFileTags ==
  \E p \in DOMAIN req, ai \in AIOutcomes :
     /\ req[p].kind = "uploadMultiple" /\ req[p].pc = "generateFileTags"
     /\ req' = [req EXCEPT ![p] =
                  uploadAfterTags(req[p],
                                  generateFileTags(req[p].batch[req[p].i].name,
                                                   req[p].batch[req[p].i].type,
                                                   ai))]
     /\ UNCHANGED <<files, folders, clock, budget, pin, pout, objects>>

\* const allFolders = await storage.getAllFolders(...) in the loop
MultiGetAllFolders ==
  \E p \in DOMAIN req, ok \in BOOLEAN :
     /\ req[p].kind = "uploadMultiple" /\ req[p].pc = "getAllFolders"
     /\ req' = [req EXCEPT ![p] =
                  IF ok
                  THEN uploadAfterFolders(req[p],
                                          getAllFolders(folders, req[p].userId))
                  ELSE multiCatch(req[p])]
     /\ UNCHANGED <<files, folders, clock, budget, pin, pout, objects>>

\* existingFolder = await storage.createFolder(...) in the loop
MultiCreateFolder ==
  \E p \in DOMAIN req, ok \in BOOLEAN :
     /\ req[p].kind = "uploadMultiple" /\ req[p].pc = "createFolder"
     /\ LET r == req[p]
            row == folderRow(newFolderData(r.aiTagging.suggestedFolderName,
                                           r.userId), clock + 1)
        IN IF ok
           THEN /\ folders' = Append(folders, row)
                /\ clock' = clock + 1
                /\ req' = [req EXCEPT ![p] =
                             [r EXCEPT !.pc = "createFile",
                                       !.targetFolderId = row.id]]
           ELSE /\ req' = [req EXCEPT ![p] = multiCatch(r)]
                /\ UNCHANGED <<folders, clock>>
     /\ UNCHANGED <<files, budget, pin, pout, objects>>

\* const createdFile = await storage.createFile(...);
\* uploadedFiles.push(createdFile)
MultiCreateFile ==
  \E p \in DOMAIN req, ok \in BOOLEAN :
     /\ req[p].kind = "uploadMultiple" /\ req[p].pc = "createFile"
     /\ LET r == req[p]
            fileData == uploadFileData(r.batch[r.i], r.userId, r.storagePath,
                                       r.aiTagging, r.targetFolderId)
            row == fileRow(fileData, clock + 1)
        IN IF ok /\ createFileAccepted(folders, fileData)
           THEN /\ files' = Append(files, row)
                /\ clock' = clock + 1
                /\ req' = [req EXCEPT ![p] =
                             multiLoop([r EXCEPT !.uploadedFiles =
                                                    Append(r.uploadedFiles, row)],
                                       r.i + 1)]
           ELSE /\ req' = [req EXCEPT ![p] = multiCatch(r)]
                /\ UNCHANGED <<files, clock>>
     /\ UNCHANGED <<folders, budget, pin, pout, objects>>

\* bodies of POST /api/folders: a name, or none
FolderNames == { N_Work, <<>> }

\* a userId in the body of a request: none, or the id of a user
BodyUserIds == {""} \cup Users

\* { userId: req.userId, ...req.body }: a userId of the body is kept
folderDataBodyLast(body, userId) ==
  [name |-> body.name, parentId |-> body.parentId,
   userId |-> IF body.userId # "" THEN body.userId ELSE userId,
   isAiGenerated |-> FALSE]

\* { ...req.body, userId: req.userId }: the later key replaces a userId of
\* the body
folderDataOf(body, userId) ==
  [name |-> body.name, parentId |-> body.parentId, userId |-> userId,
   isAiGenerated |-> FALSE]

\* POST /api/folders: insertFolderSchema.parse({ ...req.body, userId }), a
\* ZodError gives 400; storage.createFolder; res.json(folder)
FolderCreate ==
  \E p \in DOMAIN req, userId \in Users, name \in FolderNames,
     parentId \in 0..clock, bodyUserId \in BodyUserIds, ok \in BOOLEAN :
     /\ CanStart(p)
     /\ budget' = budget - 1
     /\ name = <<>> => (parentId = 0 /\ ok /\ bodyUserId = "")
     /\ LET reqBody == [name |-> name, parentId |-> parentId,
                        userId |-> bodyUserId]
            r == [kind |-> "createFolder", pc |-> "createFolder",
                  userId |-> userId, reqBody |-> reqBody,
                  status |-> 0, body |-> <<>>,
                  files0 |-> files, folders0 |-> folders, objects0 |-> objects]
            folderData == folderDataOf(reqBody, userId)
            row == folderRow(folderData, clock + 1)
        IN IF name = <<>>
           THEN /\ req' = [req EXCEPT ![p] =
                             respond(r, 400, [error |-> E_InvalidFolder])]
                /\ UNCHANGED <<folders, clock>>
           ELSE IF ok /\ createFolderAccepted(folders, folderData)
           THEN /\ folders' = Append(folders, row)
                /\ clock' = clock + 1
                /\ req' = [req EXCEPT ![p] = respond(r, 200, row)]
           ELSE /\ req' = [req EXCEPT ![p] =
                             respond(r, 500, [error |-> E_CreateFolderFailed])]
                /\ UNCHANGED <<folders, clock>>
     /\ UNCHANGED <<files, pin, pout, objects>>

---------------------------------------------------------------------------
(* Uploads, folder creation, organize-files and deletion, from empty       *)
(* tables                                                                  *)

\* requests in one behaviour
UploadRequests == 2

InitUpload ==
  /\ files = <<>>
  /\ folders = <<>>
  /\ clock = 0
  /\ req = [p \in {1} |-> Idle]
  /\ budget = UploadRequests
  /\ pin = NoProbe
  /\ pout = NoProbe
  /\ objects = {}

NextUpload ==
  \/ UploadStart
  \/ UploadUploadFile
  \/ UploadGenerateFileTags
  \/ UploadGetAllFolders
  \/ UploadCreateFolder
  \/ UploadCreateFile
  \/ MultiStart
  \/ MultiUploadFile
  \/ MultiGenerateFileTags
  \/ MultiGetAllFolders
  \/ MultiCreateFolder
  \/ MultiCreateFile
  \/ FolderCreate
  \/ OrganizeStart
  \/ OrganizeGetAllFiles
  \/ OrganizeGenerateFileTags
  \/ OrganizeGetAllFolders
  \/ OrganizeCreateFolder
  \/ OrganizeUpdateFile
  \/ DeleteStart
  \/ DeleteGetFile
  \/ DeleteStorageObject
  \/ DeleteRecord

SpecUpload == InitUpload /\ [][NextUpload]_vars

---------------------------------------------------------------------------
(* GET /api/search                                                         *)

E_SearchFailed == "Search failed"

Q_INV == <<"I","N","V">>
Q_fin == <<"f","i","n">>
Q_PDF == <<"P","D","F">>
Tag_Invoice == <<"I","n","v","o","i","c","e">>
N_invoice_notes == <<"i","n","v","o","i","c","e"," ","n","o","t","e","s">>

\* (file.tags || []).some(t => t.toLowerCase().includes(query))
someTagIncludes(file, query) ==
  \E k \in DOMAIN file.tags : includes(toLowerCase(file.tags[k]), query)

\* the q filter matching the names alone, not the tags
qFilterNamesOnly(rows, q) ==
  IF q.isString /\ q.text # <<>>
  THEN SelectSeq(rows, LAMBDA file :
         \/ includes(toLowerCase(file.original_name), toLowerCase(q.text))
         \/ includes(toLowerCase(file.display_name), toLowerCase(q.text)))
  ELSE rows

\* if (q && typeof q === 'string') files = files.filter(original name,
\* display name or a tag includes q.toLowerCase())
qFilter(rows, q) ==
  IF q.isString /\ q.text # <<>>
  THEN SelectSeq(rows, LAMBDA file :
         \/ includes(toLowerCase(file.original_name), toLowerCase(q.text))
         \/ includes(toLowerCase(file.display_name), toLowerCase(q.text))
         \/ someTagIncludes(file, toLowerCase(q.text)))
  ELSE rows

\* if (tag && typeof tag === 'string') files = files.filter(a tag equals
\* tag, both lowercased)
tagFilter(rows, tag) ==
  IF tag.isString /\ tag.text # <<>>
  THEN SelectSeq(rows, LAMBDA file :
         \E k \in DOMAIN file.tags :
            toLowerCase(file.tags[k]) = toLowerCase(tag.text))
  ELSE rows

\* if (type && typeof type === 'string') files = files.filter(file_type
\* lowercased includes type.toLowerCase())
typeFilter(rows, type) ==
  IF type.isString /\ type.text # <<>>
  THEN SelectSeq(rows, LAMBDA file :
         includes(toLowerCase(file.file_type), toLowerCase(type.text)))
  ELSE rows

\* req.query.q: absent or empty, a string, or an array (a repeated parameter)
QueryQ ==
  { [isString |-> TRUE, text |-> <<>>],
    [isString |-> TRUE, text |-> S_invoice],
    [isString |-> TRUE, text |-> Q_INV],
    [isString |-> FALSE, text |-> S_invoice] }

\* req.query.tag
QueryTag ==
  { [isString |-> TRUE, text |-> <<>>],
    [isString |-> TRUE, text |-> S_Finance],
    [isString |-> TRUE, text |-> Q_fin] }

\* req.query.type
QueryType ==
  { [isString |-> TRUE, text |-> <<>>],
    [isString |-> TRUE, text |-> Q_PDF] }

\* the handler up to its await: const { q, tag, type } = req.query
SearchStart ==
  \E p \in DOMAIN req, userId \in Users, q \in QueryQ, tag \in QueryTag,
     type \in QueryType :
     /\ CanStart(p)
     /\ budget' = budget - 1
     /\ req' = [req EXCEPT ![p] =
                  [kind |-> "search", pc |-> "getAllFiles", userId |-> userId,
                   q |-> q, tag |-> tag, type |-> type,
                   status |-> 0, body |-> <<>>,
                   files0 |-> files, folders0 |-> folders,
                   objects0 |-> objects]]
     /\ UNCHANGED <<files, folders, clock, pin, pout, objects>>

\* let files = await storage.getAllFiles(...); the three filters;
\* res.json(files); a throw of the store gives 500
SearchGetAllFiles ==
  \E p \in DOMAIN req, ok \in BOOLEAN :
     /\ req[p].kind = "search" /\ req[p].pc = "getAllFiles"
     /\ LET r == req[p]
        IN req' = [req EXCEPT ![p] =
                     IF ok
                     THEN respond(r, 200,
                                  typeFilter(
                                    tagFilter(
                                      qFilter(getAllFiles(files, r.userId), r.q),
                                      r.tag),
                                    r.type))
                     ELSE respond(r, 500, [error |-> E_SearchFailed])]
     /\ UNCHANGED <<files, folders, clock, budget, pin, pout, objects>>

\* search requests in one behaviour
SearchRequests == 1

\* the uploads the stores are made of, in the order they are made in
SearchInserts ==
  << insertFileOf(N_Invoice_Project_PPT, T_application_pdf, "u1",
                  <<S_project>>, 0),
     [insertFileOf(N_notes_md, T_text_plain, "u1", <<S_finance>>, 0)
        EXCEPT !.displayName = N_invoice_notes],
     insertFileOf(N_receipt_csv, T_text_csv, "u1",
                  <<S_Finance, Tag_Invoice>>, 0),
     insertFileOf(N_finance_invoice_csv, T_application_pdf, "u2",
                  <<S_finance>>, 0) >>

\* a store of up to MaxFiles of these uploads, any of them more than once
InitSearch ==
  /\ folders = <<>>
  /\ \E n \in 0..MaxFiles :
       \E ins \in [1..n -> DOMAIN SearchInserts] :
          /\ \A i, j \in 1..n : i <= j => ins[i] <= ins[j]
          /\ files = [i \in 1..n |->
                        fileRow([SearchInserts[ins[i]] EXCEPT !.storagePath =
                                   uploadPath(i, SearchInserts[ins[i]].originalName)],
                                i)]
  /\ clock = Len(files)
  /\ req = [p \in {1} |-> Idle]
  /\ budget = SearchRequests
  /\ pin = NoProbe
  /\ pout = NoProbe
  /\ objects = { files[i].storage_path : i \in DOMAIN files }

NextSearch ==
  \/ SearchStart
  \/ SearchGetAllFiles

SpecSearch == InitSearch /\ [][NextSearch]_vars

---------------------------------------------------------------------------
(* authenticateUser, the first middleware of every /api route              *)

E_NoToken == "No valid authentication token provided"
E_InvalidToken == "Invalid authentication token"
E_AuthFailed == "Internal server error during authentication"

H_Bearer_a == <<"B","e","a","r","e","r"," ","a">>
H_Bearer_b == <<"B","e","a","r","e","r"," ","b">>
H_Bearer_x == <<"B","e","a","r","e","r"," ","x">>
H_Bearer_ == <<"B","e","a","r","e","r"," ">>
H_bearer_a == <<"b","e","a","r","e","r"," ","a">>
H_Basic_a == <<"B","a","s","i","c"," ","a">>
H_Prefix == <<"B","e","a","r","e","r"," ">>

\* req.headers.authorization: no header, and headers of several forms
Headers ==
  { <<>>, H_Bearer_a, H_Bearer_b, H_Bearer_x, H_Bearer_, H_bearer_a, H_Basic_a }

\* the identity provider's users by their tokens
TokenUser == [a |-> "u1", b |-> "u2"]

\* String.prototype.startsWith
startsWith(s, prefix) ==
  Len(s) >= Len(prefix) /\ SubSeq(s, 1, Len(prefix)) = prefix

\* the test of the header accepting every header that is there
headerGivenAny(authHeader) == authHeader # <<>>

\* authHeader && authHeader.startsWith('Bearer ')
headerGiven(authHeader) ==
  authHeader # <<>> /\ startsWith(authHeader, H_Prefix)

\* const token = authHeader.split(' ')[1]
tokenOf(authHeader) == split(authHeader, " ")[2]

\* supabase.auth.getUser(token): the user of the token, or an error
getUser(token) ==
  IF Len(token) = 1 /\ token[1] \in DOMAIN TokenUser
  THEN [error |-> FALSE, user |-> TokenUser[token[1]]]
  ELSE [error |-> TRUE, user |-> ""]

\* the routes
Routes ==
  { "upload", "uploadMultiple", "patch", "reprocess", "similar", "delete",
    "createFolder", "search", "organize" }

\* a request arrives: the middleware up to its await; the header is absent
\* or not of the form 'Bearer ...': 401
AuthArrive ==
  \E p \in DOMAIN req, authHeader \in Headers, route \in Routes :
     /\ req[p].pc \in {"idle", "done"}
     /\ budget > 0
     /\ LET r == [kind |-> "auth", pc |-> "auth.getUser", route |-> route,
                  authHeader |-> authHeader, status |-> 0, body |-> <<>>,
                  files0 |-> files, folders0 |-> folders, objects0 |-> objects]
        IN req' = [req EXCEPT ![p] =
                     IF headerGiven(authHeader) THEN r
                     ELSE respond(r, 401, [error |-> E_NoToken])]
     /\ UNCHANGED <<files, folders, clock, budget, pin, pout, objects>>

\* getUser answers with an error or without a user: 401; it throws: 500
AuthRefuse ==
  \E p \in DOMAIN req, outcome \in CallOutcomes :
     /\ req[p].kind = "auth" /\ req[p].pc = "auth.getUser"
     /\ outcome = "ok" => getUser(tokenOf(req[p].authHeader)).error
     /\ req' = [req EXCEPT ![p] =
                  IF outcome = "throw"
                  THEN respond(req[p], 500, [error |-> E_AuthFailed])
                  ELSE respond(req[p], 401, [error |-> E_InvalidToken])]
     /\ UNCHANGED <<files, folders, clock, budget, pin, pout, objects>>

\* getUser answers with the user of the token: req.userId = user.id; next(),
\* which runs the handler of the route up to its first await
AuthNext(route, Start) ==
  \E p \in DOMAIN req :
     /\ req[p].kind = "auth" /\ req[p].pc = "auth.getUser"
     /\ req[p].route = route
     /\ ~getUser(tokenOf(req[p].authHeader)).error
     /\ Start
     /\ req'[p].userId = getUser(tokenOf(req[p].authHeader)).user

AuthUpload == AuthNext("upload", UploadStart)
AuthUploadMultiple == AuthNext("uploadMultiple", MultiStart)
AuthPatch == AuthNext("patch", PatchStart)
AuthReprocess == AuthNext("reprocess", ReprocessStart)
AuthSimilar == AuthNext("similar", SimilarStart)
AuthDelete == AuthNext("delete", DeleteStart)
AuthCreateFolder == AuthNext("createFolder", FolderCreate)
AuthSearch == AuthNext("search", SearchStart)
AuthOrganize == AuthNext("organize", OrganizeStart)

\* requests that pass the middleware in one behaviour
AuthRequests == 1

\* the uploads the store is made of, in the order they are made in
AuthInserts ==
  << insertFileOf(N_report_q1_pdf, T_application_pdf, "u1", <<Tag_finance>>, 0),
     insertFileOf(N_report_q2_pdf, T_application_pdf, "u1", <<Tag_old>>, 1),
     insertFileOf(N_photo_jpg, T_image_jpeg, "u2", <<Tag_photo>>, 0) >>

\* one folder, these uploads and their objects, and no request yet
InitAuth ==
  /\ folders = <<folderRow([name |-> N_Work, parentId |-> 0, userId |-> "u1",
                            isAiGenerated |-> FALSE], 1)>>
  /\ files = [i \in DOMAIN AuthInserts |->
                fileRow([AuthInserts[i] EXCEPT !.storagePath =
                           uploadPath(i, AuthInserts[i].originalName)], i + 1)]
  /\ clock = Len(files) + 1
  /\ req = [p \in {1} |-> Idle]
  /\ budget = AuthRequests
  /\ pin = NoProbe
  /\ pout = NoProbe
  /\ objects = { files[i].storage_path : i \in DOMAIN files }

NextAuth ==
  \/ AuthArrive
  \/ AuthRefuse
  \/ AuthUpload
  \/ AuthUploadMultiple
  \/ AuthPatch
  \/ AuthReprocess
  \/ AuthSimilar
  \/ AuthDelete
  \/ AuthCreateFolder
  \/ AuthSearch
  \/ AuthOrganize
  \/ UploadUploadFile
  \/ UploadGenerateFileTags
  \/ UploadGetAllFolders
  \/ UploadCreateFolder
  \/ UploadCreateFile
  \/ MultiUploadFile
  \/ MultiGenerateFileTags
  \/ MultiGetAllFolders
  \/ MultiCreateFolder
  \/ MultiCreateFile
  \/ PatchUpdateFile
  \/ ReprocessGetFile
  \/ ReprocessGenerateFileTags
  \/ ReprocessUpdateFile
  \/ SimilarGetFile
  \/ SimilarGetAllFiles
  \/ SimilarUpdateFile
  \/ DeleteGetFile
  \/ DeleteStorageObject
  \/ DeleteRecord
  \/ SearchGetAllFiles
  \/ OrganizeGetAllFiles
  \/ OrganizeGenerateFileTags
  \/ OrganizeGetAllFolders
  \/ OrganizeCreateFolder
  \/ OrganizeUpdateFile

SpecAuth == InitAuth /\ [][NextAuth]_vars

---------------------------------------------------------------------------
(* upload-multiple on its own                                              *)

\* upload-multiple requests in one behaviour
MultiRequests == 1

\* one folder, no file, and no request yet
InitMulti ==
  /\ folders = <<folderRow([name |-> N_Work, parentId |-> 0, userId |-> "u1",
                            isAiGenerated |-> FALSE], 1)>>
  /\ files = <<>>
  /\ clock = 1
  /\ req = [p \in {1} |-> Idle]
  /\ budget = MultiRequests
  /\ pin = NoProbe
  /\ pout = NoProbe
  /\ objects = {}

NextMulti ==
  \/ MultiStart
  \/ MultiUploadFile
  \/ MultiGenerateFileTags
  \/ MultiGetAllFolders
  \/ MultiCreateFolder
  \/ MultiCreateFile

SpecMulti == InitMulti /\ [][NextMulti]_vars

---------------------------------------------------------------------------
(* Requests handled concurrently: two handlers in flight, their steps      *)
(* interleaved at their awaits                                             *)

\* requests in one behaviour
ConcurrentRequests == 2

\* handlers in flight at one time
Slots == {1, 2}

\* the uploads the store is made of, in the order they are made in
ConcurrentInserts ==
  << insertFileOf(N_report_q1_pdf, T_application_pdf, "u1", <<Tag_finance>>, 0),
     insertFileOf(N_report_q2_pdf, T_application_pdf, "u1", <<Tag_old>>, 0) >>

\* one folder, two unfoldered files of one user, and no request yet
InitConcurrent ==
  /\ folders = <<folderRow([name |-> N_Work, parentId |-> 0, userId |-> "u1",
                            isAiGenerated |-> FALSE], 1)>>
  /\ files = [i \in DOMAIN ConcurrentInserts |->
                fileRow([ConcurrentInserts[i] EXCEPT !.storagePath =
                           uploadPath(i, ConcurrentInserts[i].originalName)],
                        i + 1)]
  /\ clock = Len(files) + 1
  /\ req = [p \in Slots |-> Idle]
  /\ budget = ConcurrentRequests
  /\ pin = NoProbe
  /\ pout = NoProbe
  /\ objects = { files[i].storage_path : i \in DOMAIN files }

NextConcurrent ==
  \/ PatchStart
  \/ PatchUpdateFile
  \/ ReprocessStart
  \/ ReprocessGetFile
  \/ ReprocessGenerateFileTags
  \/ ReprocessUpdateFile
  \/ SimilarStart
  \/ SimilarGetFile
  \/ SimilarGetAllFiles
  \/ SimilarUpdateFile
  \/ OrganizeStart
  \/ OrganizeGetAllFiles
  \/ OrganizeGenerateFileTags
  \/ OrganizeGetAllFolders
  \/ OrganizeCreateFolder
  \/ OrganizeUpdateFile

SpecConcurrent == InitConcurrent /\ [][NextConcurrent]_vars

---------------------------------------------------------------------------
(* Uploads and organize-files handled concurrently                         *)

\* one unfoldered file of one user, no folder, and no request yet
InitFolders ==
  /\ folders = <<>>
  /\ files = <<fileRow([insertFileOf(N_photo_jpg, T_image_jpeg, "u1", <<>>, 0)
                          EXCEPT !.storagePath = uploadPath(1, N_photo_jpg)],
                       2)>>
  /\ clock = 2
  /\ req = [p \in Slots |-> Idle]
  /\ budget = ConcurrentRequests
  /\ pin = NoProbe
  /\ pout = NoProbe
  /\ objects = { files[i].storage_path : i \in DOMAIN files }

\* files in the array of an upload-multiple request handled beside another
\* request
MaxBatch == 1

\* a request of the one user whose folders are looked at, arriving without a
\* folderId of its own and with at most MaxBatch files, at the first slot
\* that has had no request
OfOneUser(Start) ==
  /\ Start
  /\ \A p \in DOMAIN req :
       req'[p] # req[p] =>
         /\ req'[p].userId = "u1"
         /\ "folderId" \in DOMAIN req'[p] => req'[p].folderId = 0
         /\ "batch" \in DOMAIN req'[p] => Len(req'[p].batch) <= MaxBatch
         /\ \A q \in DOMAIN req : q < p => req[q].pc # "idle"

OneUserUpload == OfOneUser(UploadStart)

OneUserUploadMultiple == OfOneUser(MultiStart)

OneUserOrganize == OfOneUser(OrganizeStart)

NextFolders ==
  \/ OneUserUpload
  \/ UploadUploadFile
  \/ UploadGenerateFileTags
  \/ UploadGetAllFolders
  \/ UploadCreateFolder
  \/ UploadCreateFile
  \/ OneUserUploadMultiple
  \/ MultiUploadFile
  \/ MultiGenerateFileTags
  \/ MultiGetAllFolders
  \/ MultiCreateFolder
  \/ MultiCreateFile
  \/ OneUserOrganize
  \/ OrganizeGetAllFiles
  \/ OrganizeGenerateFileTags
  \/ OrganizeGetAllFolders
  \/ OrganizeCreateFolder
  \/ OrganizeUpdateFile

SpecFolders == InitFolders /\ [][NextFolders]_vars

---------------------------------------------------------------------------
(* organize-files run twice in a row: the second request arrives when the  *)
(* first has answered, and nothing else is handled                         *)

\* organize-files runs in one behaviour
OrganizeRuns == 2

\* the request arrives at the first slot that has had none, when no request
\* is in flight
InTurn(Start) ==
  /\ Start
  /\ \A p \in DOMAIN req :
       req'[p] # req[p] =>
         /\ req[p].pc = "idle"
         /\ \A q \in DOMAIN req : q < p => req[q].pc = "done"

OrganizeInTurn == InTurn(OrganizeStart)

\* one folder and the uploads of OrgInserts, two of them unfoldered files of
\* the first user
InitTwice ==
  /\ folders = <<folderRow([name |-> N_Work, parentId |-> 0, userId |-> "u1",
                            isAiGenerated |-> FALSE], 1)>>
  /\ files = [i \in DOMAIN OrgInserts |->
                fileRow([OrgInserts[i] EXCEPT !.storagePath =
                           uploadPath(i, OrgInserts[i].originalName)], i + 1)]
  /\ clock = Len(files) + 1
  /\ req = [p \in 1..OrganizeRuns |-> Idle]
  /\ budget = OrganizeRuns
  /\ pin = NoProbe
  /\ pout = NoProbe
  /\ objects = { files[i].storage_path : i \in DOMAIN files }

NextTwice ==
  \/ OrganizeInTurn
  \/ OrganizeGetAllFiles
  \/ OrganizeGenerateFileTags
  \/ OrganizeGetAllFolders
  \/ OrganizeCreateFolder
  \/ OrganizeUpdateFile

SpecTwice == InitTwice /\ [][NextTwice]_vars

---------------------------------------------------------------------------
(* Requests that create records: POST /api/folders, upload and             *)
(* upload-multiple                                                         *)

\* creating requests in one behaviour
OwnerRequests == 1

\* one folder, no file, and no request yet
InitOwner ==
  /\ folders = <<folderRow([name |-> N_Work, parentId |-> 0, userId |-> "u1",
                            isAiGenerated |-> FALSE], 1)>>
  /\ files = <<>>
  /\ clock = 1
  /\ req = [p \in {1} |-> Idle]
  /\ budget = OwnerRequests
  /\ pin = NoProbe
  /\ pout = NoProbe
  /\ objects = {}

NextOwner ==
  \/ FolderCreate
  \/ UploadStart
  \/ UploadUploadFile
  \/ UploadGenerateFileTags
  \/ UploadGetAllFolders
  \/ UploadCreateFolder
  \/ UploadCreateFile
  \/ MultiStart
  \/ MultiUploadFile
  \/ MultiGenerateFileTags
  \/ MultiGetAllFolders
  \/ MultiCreateFolder
  \/ MultiCreateFile

SpecOwner == InitOwner /\ [][NextOwner]_vars

---------------------------------------------------------------------------
(* What the claims say, stated apart from the code's own expressions       *)

W_report == <<"r","e","p","o","r","t">>
W_q1     == <<"q","1">>
W_pdf    == <<"p","d","f">>

\* the characters a-z and 0-9
AlnumChars == Range(LowerAlpha) \cup Digits

IsAlnum(c) == c \in AlnumChars

Max(S) == CHOOSE x \in S : \A y \in S : y <= x
Min(S) == CHOOSE x \in S : \A y \in S : x <= y

\* the part of a MIME type before its first "/", lowercased
ClaimMainType(t) ==
  LET at == { i \in 1..Len(t) : t[i] = "/" }
  IN toLowerCase(IF at = {} THEN t ELSE SubSeq(t, 1, Min(at) - 1))

\* the part of a name after its last ".", lowercased
ClaimExtension(name) ==
  LET at == { i \in 1..Len(name) : name[i] = "." }
  IN toLowerCase(IF at = {} THEN name ELSE SubSeq(name, Max(at) + 1, Len(name)))

\* where the run of a-z0-9 that begins at i ends
RunEnd(s, i) ==
  Min({ j \in i..Len(s) : j = Len(s) \/ ~IsAlnum(s[j + 1]) })

\* the maximal runs of a-z0-9 of the lowercased name that are longer than 2
ClaimKeywords(name) ==
  LET s == toLowerCase(name)
      starts == { i \in 1..Len(s) :
                    IsAlnum(s[i]) /\ (i = 1 \/ ~IsAlnum(s[i - 1])) }
  IN { SubSeq(s, i, RunEnd(s, i)) :
         i \in { k \in starts : RunEnd(s, k) - k + 1 > 2 } }

ClaimShared(a, b) ==
  \E k1 \in ClaimKeywords(a), k2 \in ClaimKeywords(b) :
     k1 = k2 \/ includes(k1, k2) \/ includes(k2, k1)

ClauseA(src, f) == f.file_type = src.file_type

ClauseB(src, f) ==
  /\ ClaimMainType(f.file_type) = ClaimMainType(src.file_type)
  /\ ClaimExtension(f.original_name) = ClaimExtension(src.original_name)

ClauseC(src, f) ==
  /\ ClaimExtension(f.original_name) = ClaimExtension(src.original_name)
  /\ ClaimShared(src.original_name, f.original_name)

ClaimSimilar(src, f) == ClauseA(src, f) \/ ClauseB(src, f) \/ ClauseC(src, f)

RowOf(tbl, id) == CHOOSE r \in Range(tbl) : r.id = id

Ids(rows) == [k \in 1..Len(rows) |-> rows[k].id]

\* a finished apply-to-similar request that answered with success
SimilarSucceeded(r) == r.kind = "similar" /\ r.pc = "done" /\ r.status = 200

\* an apply-to-similar request that has made its list of similar files
SimilarFiltered(r) ==
  r.kind = "similar" /\ (r.pc = "updateFile" \/ SimilarSucceeded(r))

---------------------------------------------------------------------------
\* C1: after apply-to-similar has answered with success, every file of the
\* returned updatedFiles, as returned and as stored, has exactly the tag list
\* the source file had when the request started: the tags are replaced, not
\* merged with the file's earlier tags.
C1_UpdatedFilesHaveSourceTags ==
  \A p \in DOMAIN req :
     SimilarSucceeded(req[p]) =>
       LET r == req[p]
           sourceTags == RowOf(r.files0, r.id).tags
       IN \A k \in DOMAIN r.body.updatedFiles :
             /\ r.body.updatedFiles[k].tags = sourceTags
             /\ RowOf(files, r.body.updatedFiles[k].id).tags = sourceTags

\* a success that updated a file whose earlier tags had a tag the source
\* lacks, so that a union would differ from the replacement
C1_Witness ==
  \E p \in DOMAIN req :
     /\ SimilarSucceeded(req[p])
     /\ \E k \in DOMAIN req[p].body.updatedFiles :
           LET was == RowOf(req[p].files0, req[p].body.updatedFiles[k].id).tags
           IN Range(was) \ Range(RowOf(req[p].files0, req[p].id).tags) # {}

---------------------------------------------------------------------------
\* C2: the files apply-to-similar treats as similar are exactly the files of
\* the caller's collection, other than the source, that satisfy clause (a),
\* (b) or (c), in the order of the collection; the collection holds the
\* caller's files and only them.
C2_SimilarIsExactlyTheClauses ==
  \A p \in DOMAIN req :
     SimilarFiltered(req[p]) =>
       LET r == req[p]
       IN /\ \A k \in DOMAIN r.allFiles : r.allFiles[k].user_id = r.userId
          /\ Range(Ids(r.allFiles)) =
               { f.id : f \in { g \in Range(r.files0) : g.user_id = r.userId } }
          /\ r.similarFiles =
               SelectSeq(r.allFiles,
                         LAMBDA f : f.id # r.sourceFile.id
                                    /\ ClaimSimilar(r.sourceFile, f))

\* a collection of the source, a file matched by clause (c) alone and a file
\* that is not matched
C2_Witness ==
  \E p \in DOMAIN req :
     /\ SimilarFiltered(req[p])
     /\ Len(req[p].allFiles) = 3
     /\ Len(req[p].similarFiles) = 1
     /\ ~ClauseA(req[p].sourceFile, req[p].similarFiles[1])
     /\ ~ClauseB(req[p].sourceFile, req[p].similarFiles[1])

---------------------------------------------------------------------------
\* C3: the matcher is symmetric: a candidate is matched from a source exactly
\* when the source is matched from the candidate.
C3_MatchIsSymmetric ==
  pout.kind = "match" => pout.isMatch = pout.reverse

\* a pair matched only through a keyword of one file that is a proper part
\* of a keyword of the other
C3_Witness ==
  /\ pout.kind = "match"
  /\ pin.sourceFile.original_name = N_notes_md
  /\ pin.file.original_name = N_note_md
  /\ ~sameMainType(pin.sourceFile, pin.file)
  /\ pout.isMatch

---------------------------------------------------------------------------
\* C4 as stated: from "report_q1.pdf" (application/pdf) the extension is pdf
\* and the keywords are {report, q1}; "report_q2.pdf" (application/pdf) is
\* matched through extension and keyword, "photo.jpg" (image/jpeg) is not.
C4_Original ==
  (/\ pout.kind = "match"
   /\ pin.sourceFile = [original_name |-> N_report_q1_pdf,
                        file_type |-> T_application_pdf]) =>
    /\ pout.sourceExt = W_pdf
    /\ Range(pout.sourceKeywords) = {W_report, W_q1}
    /\ (pin.file = [original_name |-> N_report_q2_pdf,
                    file_type |-> T_application_pdf]
          => pout.sameExtension /\ pout.hasCommonKeywords /\ pout.isMatch)
    /\ (pin.file = [original_name |-> N_photo_jpg, file_type |-> T_image_jpeg]
          => ~pout.isMatch)

\* C4 as amended: from "report_q1.pdf" the extension is pdf and the keywords
\* are report and pdf (q1 is dropped for its length, the extension is a
\* keyword); "report_q2.pdf" is matched through extension and keyword
\* whatever the two MIME types are, and "photo.jpg" is matched only when its
\* MIME type is the source's.
C4_Scenario ==
  (pout.kind = "match" /\ pin.sourceFile.original_name = N_report_q1_pdf) =>
    /\ pout.sourceExt = W_pdf
    /\ pout.sourceKeywords = <<W_report, W_pdf>>
    /\ (pin.file.original_name = N_report_q2_pdf
          => pout.sameExtension /\ pout.hasCommonKeywords /\ pout.isMatch)
    /\ (pin.file.original_name = N_photo_jpg
          => (pout.isMatch <=> pin.file.file_type = pin.sourceFile.file_type))

\* the scenario's pair with MIME types of different main types
C4_Witness ==
  /\ pout.kind = "match"
  /\ pin.sourceFile = [original_name |-> N_report_q1_pdf,
                       file_type |-> T_application_pdf]
  /\ pin.file = [original_name |-> N_report_q2_pdf, file_type |-> T_text_plain]
  /\ pout.isMatch

---------------------------------------------------------------------------
\* C5: in apply-to-similar an update is attempted for every matched file, in
\* order, whether or not earlier updates failed; the answer's count is the
\* number of updates the store made, similarFilesFound the number of matched
\* files, and count <= similarFilesFound.
C5_FailedUpdateDoesNotStopTheLoop ==
  \A p \in DOMAIN req :
     SimilarFiltered(req[p]) =>
       LET r == req[p]
           made == { k \in DOMAIN r.attempted : r.attempted[k].updated }
       IN /\ Len(r.attempted) = r.i - 1
          /\ \A k \in DOMAIN r.attempted :
                r.attempted[k].id = r.similarFiles[k].id
          /\ SimilarSucceeded(r) =>
               /\ Len(r.attempted) = Len(r.similarFiles)
               /\ r.body.count = Cardinality(made)
               /\ r.body.similarFilesFound = Len(r.similarFiles)
               /\ r.body.count <= r.body.similarFilesFound

\* a success whose first update failed and whose second update was made
C5_Witness ==
  \E p \in DOMAIN req :
     /\ SimilarSucceeded(req[p])
     /\ Len(req[p].attempted) >= 2
     /\ ~req[p].attempted[1].updated
     /\ req[p].attempted[2].updated

---------------------------------------------------------------------------
\* C6: apply-to-similar changes nothing but the tags of matched files: the
\* folders, the number and order of the files, every column other than tags
\* of every file, and the tags of the source and of every file not matched
\* are as they were when the request started.
C6_OnlyTagsOfMatchedFilesChange ==
  \A p \in DOMAIN req :
     req[p].kind = "similar" =>
       LET r == req[p]
       IN /\ folders = r.folders0
          /\ Len(files) = Len(r.files0)
          /\ \A i \in DOMAIN files :
                /\ \A c \in FileColumns \ {"tags"} : files[i][c] = r.files0[i][c]
                /\ files[i].tags # r.files0[i].tags =>
                     /\ files[i].id # r.id
                     /\ files[i].id \in Range(Ids(r.similarFiles))

\* a success that changed the tags of a file that lies in a folder, the
\* source lying in none
C6_Witness ==
  \E p \in DOMAIN req :
     /\ SimilarSucceeded(req[p])
     /\ RowOf(req[p].files0, req[p].id).folder_id = 0
     /\ \E i \in DOMAIN files :
           /\ files[i].tags # req[p].files0[i].tags
           /\ files[i].folder_id # 0

---------------------------------------------------------------------------
(* POST /api/organize-files against what the specification says of it      *)

\* an organize-files request that has answered
OrganizeDone(r) == r.kind = "organize" /\ r.pc = "done"

\* an organize-files request that has answered with its report
OrganizeSucceeded(r) == OrganizeDone(r) /\ r.status = 200

\* the files of the run that received a folder suggestion
Suggested(r) == SelectSeq(r.tagged, LAMBDA t : t.suggestedFolderName # <<>>)

\* the lowercased names of the folders the caller had when the run began
OwnedNames0(r) ==
  { toLowerCase(f.name) : f \in { g \in Range(r.folders0) : g.user_id = r.userId } }

\* the number of entries of a sequence with this suggested name
CountOf(sug, folderName) ==
  Cardinality({ k \in DOMAIN sug : sug[k].suggestedFolderName = folderName })

\* the files whose folder reference differs from what it was when the
\* request began
FolderChanged(r) ==
  { k \in DOMAIN files : files[k].folder_id # r.files0[k].folder_id }

\* C7: a folder created by a run of organize-files belongs to the caller,
\* and no other folder of the caller, created by the run or there before,
\* has a name equal to its name when both are lowercased.
C7_NoCaseInsensitiveDuplicateCreated ==
  \A p \in DOMAIN req :
     req[p].kind = "organize" =>
        \A c \in Range(req[p].createdFolders) :
           LET folder == RowOf(folders, c)
           IN /\ folder.user_id = req[p].userId
              /\ \A other \in Range(folders) :
                    ( /\ other.id # folder.id
                      /\ other.user_id = folder.user_id )
                    => toLowerCase(other.name) # toLowerCase(folder.name)

\* a run that answered with its report, created a folder, and had two files
\* suggested names that differ only in the case of their letters
C7_Witness ==
  \E p \in DOMAIN req :
     /\ OrganizeSucceeded(req[p])
     /\ Len(req[p].createdFolders) >= 1
     /\ \E a, b \in DOMAIN req[p].tagged :
           /\ a < b
           /\ req[p].tagged[a].suggestedFolderName = S_Invoices
           /\ req[p].tagged[b].suggestedFolderName = S_invoices

\* C8: as the specification has it, every unfoldered file of the caller is
\* processed by a run of organize-files whatever fails for one of them:
\* once the handler has listed the files and answered, each of them has
\* been through the tagging call.
C8_Original ==
  \A p \in DOMAIN req :
     (OrganizeDone(req[p]) /\ req[p].listed) =>
        \A k \in DOMAIN req[p].fileList :
           req[p].fileList[k].folder_id = 0 =>
              \E t \in DOMAIN req[p].tagged :
                 req[p].tagged[t].id = req[p].fileList[k].id

\* C9: as the specification has it, filesMoved of the report is the number
\* of files whose folder reference the run changed in the store.
C9_Original ==
  \A p \in DOMAIN req :
     OrganizeSucceeded(req[p]) =>
        req[p].body.filesMoved = Cardinality(FolderChanged(req[p]))

\* C10: in the report of organize-files, filesMoved is the number of
\* unfoldered files of the caller that received a folder suggestion and
\* foldersCreated is the number of distinct lowercased suggested names the
\* caller had no folder of when the run began; with three unfoldered files,
\* two suggested "Invoices" and one "Photos", and no such folders before,
\* the report is foldersCreated = 2 and filesMoved = 3.
C10_ReportCounts ==
  \A p \in DOMAIN req :
     OrganizeSucceeded(req[p]) =>
        LET r == req[p]
            sug == Suggested(r)
            unfoldered == { k \in DOMAIN r.fileList : r.fileList[k].folder_id = 0 }
            names == { toLowerCase(sug[k].suggestedFolderName) : k \in DOMAIN sug }
        IN /\ { r.tagged[k].id : k \in DOMAIN r.tagged }
                = { r.fileList[k].id : k \in unfoldered }
           /\ Len(r.tagged) = Cardinality(unfoldered)
           /\ r.body.filesMoved = Len(sug)
           /\ r.body.foldersCreated = Cardinality(names \ OwnedNames0(r))
           /\ ( /\ Cardinality(unfoldered) = 3
                /\ CountOf(r.tagged, S_Invoices) = 2
                /\ CountOf(r.tagged, S_Photos) = 1
                /\ OwnedNames0(r) \cap { toLowerCase(S_Invoices),
                                         toLowerCase(S_Photos) } = {} )
              => ( r.body.foldersCreated = 2 /\ r.body.filesMoved = 3 )

\* the run of the scenario: three unfoldered files, two suggested
\* "Invoices" and one "Photos", neither folder there before, while another
\* user has a folder "Photos"
C10_Witness ==
  \E p \in DOMAIN req :
     LET r == req[p]
     IN /\ OrganizeSucceeded(r)
        /\ Cardinality({ k \in DOMAIN r.fileList : r.fileList[k].folder_id = 0 }) = 3
        /\ CountOf(r.tagged, S_Invoices) = 2
        /\ CountOf(r.tagged, S_Photos) = 1
        /\ OwnedNames0(r) \cap { toLowerCase(S_Invoices), toLowerCase(S_Photos) } = {}
        /\ \E f \in Range(r.folders0) :
              f.user_id # r.userId /\ f.name = S_Photos


---------------------------------------------------------------------------
\* the entry of tagged for this file, or none
TaggedOf(r, id) ==
  { r.tagged[k] : k \in { j \in DOMAIN r.tagged : r.tagged[j].id = id } }

\* a file the run read that it has to leave alone: it had a folder
\* reference, or its tagging result has no suggested folder name
LeftAlone(r, f) ==
  \/ f.folder_id # 0
  \/ \E t \in TaggedOf(r, f.id) : t.suggestedFolderName = <<>>

\* C11: a file that has a folder reference when organize-files reads the
\* list, and an unfoldered file whose tagging result has no suggested folder
\* name, has the folder reference and the tag list after the run that it had
\* before it.
C11_OrganizeLeavesTheOthersAlone ==
  \A p \in DOMAIN req :
     (req[p].kind = "organize" /\ req[p].listed) =>
        \A f \in Range(req[p].fileList) :
           LeftAlone(req[p], f) =>
              /\ RowOf(files, f.id).folder_id = f.folder_id
              /\ RowOf(files, f.id).tags = f.tags

\* a run that answered with its report after it read a file in a folder, a
\* file that got no suggestion and a file that got one
C11_Witness ==
  \E p \in DOMAIN req :
     /\ OrganizeSucceeded(req[p])
     /\ \E f \in Range(req[p].fileList) : f.folder_id # 0
     /\ \E t \in Range(req[p].tagged) : t.suggestedFolderName = <<>>
     /\ req[p].body.filesMoved >= 1

\* C12: as the specification has it, after a run of organize-files in which
\* no call failed every unfoldered file that got a suggestion is in a folder
\* of its owner whose name is the suggestion up to the case of the letters,
\* its tag list is the newly generated one, and the folders the run created
\* are flagged AI-generated.
C12_Original ==
  \A p \in DOMAIN req :
     OrganizeSucceeded(req[p]) =>
        /\ \A t \in Range(Suggested(req[p])) :
              LET file == RowOf(files, t.id)
              IN /\ file.folder_id # 0
                 /\ \E folder \in Range(folders) :
                       /\ folder.id = file.folder_id
                       /\ folder.user_id = file.user_id
                       /\ toLowerCase(folder.name)
                            = toLowerCase(t.suggestedFolderName)
                 /\ file.tags = t.tags
        /\ \A c \in Range(req[p].createdFolders) :
              RowOf(folders, c).is_ai_generated

---------------------------------------------------------------------------
(* The tagging service against what the specification says of it           *)

\* the probe has run
Tagged == pout.kind = "tagging"

\* the rule table of the fallback, in its order, for a lowercased name and
\* type: whether the rule fires, the tags it appends, the folder it suggests
ClaimRules(n, t) ==
  LET has(w) == includes(n, w)
      ty(w) == includes(t, w)
      doc == ty(S_pdf) \/ ty(S_doc)
      d1 == has(S_resume) \/ has(S_cv)
      d2 == has(S_assignment) \/ has(S_homework)
      d3 == has(S_cover) /\ has(S_letter)
      d4 == has(S_job) \/ has(S_application)
      img == ty(S_image) \/ ty(S_jpg) \/ ty(S_png)
      i1 == has(S_photo) \/ has(S_pic)
      i2 == has(S_screenshot)
      i3 == has(S_wallpaper) \/ has(S_background)
      sheet == ty(S_excel) \/ ty(S_csv) \/ ty(S_spreadsheet)
      s1 == has(S_customer) \/ has(S_client)
      s2 == has(S_finance) \/ has(S_loan) \/ has(S_payment)
      rule(fires, tags, folder) ==
        [fires |-> fires, tags |-> tags, folder |-> folder]
  IN << rule(doc, <<S_document>>, <<>>),
        rule(doc /\ d1, <<S_resume, S_personal>>, S_Resumes),
        rule(doc /\ ~d1 /\ d2, <<S_assignment, S_work>>, S_Assignments),
        rule(doc /\ ~d1 /\ ~d2 /\ d3, <<S_work, S_application>>, S_Cover_Letters),
        rule(doc /\ ~d1 /\ ~d2 /\ ~d3 /\ d4, <<S_work, S_application>>,
             S_Job_Applications),
        rule(doc /\ ~d1 /\ ~d2 /\ ~d3 /\ ~d4, <<>>, S_Documents),
        rule(img, <<S_image>>, <<>>),
        rule(img /\ i1, <<S_photo>>, S_Photos),
        rule(img /\ ~i1 /\ i2, <<S_screenshot>>, S_Screenshots),
        rule(img /\ ~i1 /\ ~i2 /\ i3, <<S_wallpaper>>, S_Wallpapers),
        rule(img /\ ~i1 /\ ~i2 /\ ~i3, <<>>, S_Images),
        rule(sheet, <<S_spreadsheet, S_data>>, <<>>),
        rule(sheet /\ s1, <<S_customer>>, S_Customer_Data),
        rule(sheet /\ ~s1 /\ s2, <<S_finance>>, S_Financial_Data),
        rule(sheet /\ ~s1 /\ ~s2, <<>>, S_Spreadsheets),
        rule(ty(S_video) \/ ty(S_mp4), <<S_video>>, S_Videos),
        rule(has(S_report), <<S_report>>, <<>>),
        rule(has(S_invoice) \/ has(S_receipt), <<S_finance>>,
             S_Financial_Documents),
        rule(has(S_project), <<S_project>>, S_Projects),
        rule(has(S_presentation) \/ has(S_ppt), <<S_presentation>>,
             S_Presentations) >>

\* the tags of the rules that fire among the first k, in table order
RECURSIVE ClaimTags(_, _)
ClaimTags(rules, k) ==
  IF k = 0 THEN <<>>
  ELSE ClaimTags(rules, k - 1) \o (IF rules[k].fires THEN rules[k].tags ELSE <<>>)

\* the folder of the last rule that fires and suggests a folder, or none
ClaimFolder(rules) ==
  LET S == { k \in DOMAIN rules : rules[k].fires /\ rules[k].folder # <<>> }
  IN IF S = {} THEN <<>> ELSE rules[Max(S)].folder

\* the rules of the table that fire for the probed name and type
Firing ==
  LET rules == ClaimRules(toLowerCase(pin.fileName), toLowerCase(pin.fileType))
  IN { k \in DOMAIN rules : rules[k].fires }

\* a tag without capitals
IsLowerCase(tag) == \A i \in DOMAIN tag : tag[i] \notin Range(UpperAlpha)

\* C14: whenever the primary path of generateFileTags fails (the AI request
\* throws, the reply is empty, is whitespace, or does not parse), the
\* function returns the result of the fallback rules for the same name and
\* type, and nothing is thrown to the caller.
C14_FailureGivesFallback ==
  (Tagged /\ pin.ai \in AIFailures) =>
     /\ "threw" \notin DOMAIN pout.result
     /\ pout.result = pout.fallback
     /\ pout.result.confidence = FallbackConfidence

\* a reply that does not parse, for a file some rule of the fallback fires on
C14_Witness ==
  /\ Tagged
  /\ pin.ai.kind = "malformed"
  /\ pout.result.suggestedFolderName # <<>>

\* C15: as the specification has it, every result of generateFileTags has a
\* tag set that is not empty and whose tags are lowercase.
C15_Original ==
  Tagged =>
     /\ "tags" \in DOMAIN pout.result
     /\ pout.result.tags # <<>>
     /\ \A k \in DOMAIN pout.result.tags : IsLowerCase(pout.result.tags[k])

\* C16: with the AI request failing, resume_john.pdf of type application/pdf
\* is tagged document, resume and personal, and the suggested folder is
\* Resumes.
C16_ResumeScenario ==
  ( /\ Tagged
    /\ pin.fileName = N_resume_john_pdf
    /\ pin.fileType = T_application_pdf
    /\ pin.ai \in AIFailures ) =>
     /\ { S_document, S_resume, S_personal } \subseteq Range(pout.result.tags)
     /\ pout.result.suggestedFolderName = S_Resumes

\* the scenario, with the AI request throwing
C16_Witness ==
  /\ Tagged
  /\ pin.fileName = N_resume_john_pdf
  /\ pin.fileType = T_application_pdf
  /\ pin.ai.kind = "throws"

\* C17: the fallback's tags are the tags of the rules that fire, in table
\* order, and its folder is that of the last rule that fires and suggests
\* one, so that the type rules give way to invoice/receipt, that to project
\* and that to presentation/ppt; when no rule fires the tags are exactly
\* uncategorized and there is no folder.
C17_LastRuleWins ==
  Tagged =>
     LET rules == ClaimRules(toLowerCase(pin.fileName), toLowerCase(pin.fileType))
         tags == ClaimTags(rules, Len(rules))
     IN /\ pout.fallback.tags = (IF tags = <<>> THEN <<S_uncategorized>> ELSE tags)
        /\ pout.fallback.suggestedFolderName = ClaimFolder(rules)
        /\ Firing = {} =>
              /\ pout.fallback.tags = <<S_uncategorized>>
              /\ pout.fallback.suggestedFolderName = <<>>

\* a file on which a type rule, the invoice rule, the project rule and the
\* presentation rule all fire
C17_Witness ==
  /\ Tagged
  /\ { 1, 18, 19, 20 } \subseteq Firing
  /\ pout.fallback.suggestedFolderName = S_Presentations

---------------------------------------------------------------------------
(* DELETE, PATCH tags, reprocess: order of removal, failures, not found    *)

\* the calls a handler has made so far, as a set
Called(r) == Range(r.calls)

\* the caller owns a file of this id when the request arrives
OwnedAtStart(r) ==
  \E i \in DOMAIN r.files0 :
     r.files0[i].id = r.id /\ r.files0[i].user_id = r.userId

\* some user's file of this id is in the store when the request arrives
ExistsAtStart(r) == \E i \in DOMAIN r.files0 : r.files0[i].id = r.id

\* the request has changed nothing in the stores and the bucket
NothingChanged(r) ==
  files = r.files0 /\ folders = r.folders0 /\ objects = r.objects0

\* C18: in DELETE /api/files/:id the removal of the file record is called
\* only after the removal of the object has been called, and the record of
\* the file is in the store as long as the removal of the object has not
\* been attempted.
C18_ObjectRemovalIsAttemptedFirst ==
  \A p \in DOMAIN req :
     req[p].kind = "delete" =>
        /\ \A j \in DOMAIN req[p].calls :
              req[p].calls[j] = "storage.deleteFile" =>
                 \E i \in 1..(j - 1) :
                    req[p].calls[i] = "supabaseStorage.deleteFile"
        /\ "supabaseStorage.deleteFile" \notin Called(req[p])
              => files = req[p].files0

\* a file of the caller is deleted: object and record are gone, in this order
C18_Witness ==
  \E p \in DOMAIN req :
     /\ req[p].kind = "delete" /\ req[p].pc = "done" /\ req[p].status = 200
     /\ OwnedAtStart(req[p])
     /\ req[p].calls = <<"getFile", "supabaseStorage.deleteFile",
                         "storage.deleteFile">>
     /\ ~\E i \in DOMAIN files : files[i].id = req[p].id
     /\ req[p].file.storage_path \notin objects

\* C19: a DELETE, PATCH tags or reprocess request in which a call to the
\* object storage or to the relational store failed is answered with 500.
C19_Original ==
  \A p \in DOMAIN req :
     /\ req[p].kind \in {"delete", "patch", "reprocess"}
     /\ req[p].pc = "done"
     /\ req[p].failed # {}
     => req[p].status = 500

---------------------------------------------------------------------------
(* Uploads: the folder reference of a file                                 *)

\* C13: every file's folder reference is absent or is the id of a folder
\* in the store that has the owner of the file, after any uploads, folder
\* creations, organize-files runs and deletions.
C13_Original ==
  \A i \in DOMAIN files :
     files[i].folder_id = 0
     \/ \E k \in DOMAIN folders :
           /\ folders[k].id = files[i].folder_id
           /\ folders[k].user_id = files[i].user_id

---------------------------------------------------------------------------
(* The matcher: files of one extension                                     *)

\* the two names have one extension, of at least 3 characters, all of a-z0-9
SharedLongExtension(a, b) ==
  /\ ClaimExtension(a) = ClaimExtension(b)
  /\ Len(ClaimExtension(a)) >= 3
  /\ \A i \in 1..Len(ClaimExtension(a)) : IsAlnum(ClaimExtension(a)[i])

\* C27: a source and a candidate with the same extension, of at least 3
\* characters of a-z0-9, match whatever their MIME types and the rest of
\* their names are: the extension is a keyword of each file.
C27_SameLongExtensionMatches ==
  (/\ pout.kind = "match"
   /\ SharedLongExtension(pin.sourceFile.original_name, pin.file.original_name))
  => /\ pout.isMatch
     /\ pout.hasCommonKeywords
     /\ pout.sourceExt \in Range(pout.sourceKeywords)
     /\ pout.sourceExt \in ClaimKeywords(pin.file.original_name)

\* photo.jpg and rep.jpg with MIME types of different main types: nothing
\* but the extension is shared
C27_Witness ==
  /\ pout.kind = "match"
  /\ pin.sourceFile = [original_name |-> N_photo_jpg, file_type |-> T_image_jpeg]
  /\ pin.file = [original_name |-> N_rep_jpg, file_type |-> T_text_plain]
  /\ pout.isMatch

---------------------------------------------------------------------------
(* Fallback tagging: the tags as a list                                    *)

\* no element of the sequence is in it twice
NoDuplicates(s) == \A i, j \in DOMAIN s : s[i] = s[j] => i = j

\* C30: the tag list fallback tagging returns has no tag twice, for every
\* file name and MIME type.
C30_Original ==
  pout.kind = "tagging" => NoDuplicates(pout.fallback.tags)

---------------------------------------------------------------------------
(* GET /api/search: what is returned                                       *)

\* sub is a part of s, the case of the letters aside
ContainsCI(s, sub) ==
  \E i \in 1..(Len(s) - Len(sub) + 1) :
     toLowerCase(SubSeq(s, i, i + Len(sub) - 1)) = toLowerCase(sub)

\* a filter is supplied: the parameter is one string that is not empty
Supplied(v) == v.isString /\ v.text # <<>>

\* the file passes every supplied filter of the request
PassesFilters(f, r) ==
  /\ Supplied(r.q) =>
        \/ ContainsCI(f.original_name, r.q.text)
        \/ ContainsCI(f.display_name, r.q.text)
        \/ \E k \in DOMAIN f.tags : ContainsCI(f.tags[k], r.q.text)
  /\ Supplied(r.tag) =>
        \E k \in DOMAIN f.tags : toLowerCase(f.tags[k]) = toLowerCase(r.tag.text)
  /\ Supplied(r.type) => ContainsCI(f.file_type, r.type.text)

\* a finished search that answered with files
SearchSucceeded(r) == r.kind = "search" /\ r.pc = "done" /\ r.status = 200

\* C22: GET /api/search returns exactly the caller's files that pass every
\* supplied filter (q: part of the original name, the display name or a tag;
\* tag: equal to a tag; type: part of the MIME type; all case-insensitively),
\* in the order of the file list, latest upload first.
C22_SearchReturnsTheFilteredFiles ==
  \A p \in DOMAIN req :
     SearchSucceeded(req[p]) =>
        req[p].body =
          Reverse(SelectSeq(req[p].files0,
                            LAMBDA f : /\ f.user_id = req[p].userId
                                       /\ PassesFilters(f, req[p])))

\* q = "invoice" and tag = "Finance" on three files of the caller: one is
\* kept through a tag only, one through its display name, one is dropped
C22_Witness ==
  \E p \in DOMAIN req :
     /\ SearchSucceeded(req[p])
     /\ req[p].q = [isString |-> TRUE, text |-> S_invoice]
     /\ req[p].tag = [isString |-> TRUE, text |-> S_Finance]
     /\ Len(getAllFiles(req[p].files0, req[p].userId)) = 3
     /\ Len(req[p].body) = 2
     /\ req[p].body[1].original_name = N_receipt_csv
     /\ req[p].body[2].original_name = N_notes_md

---------------------------------------------------------------------------
(* authenticateUser: who reaches a route handler                           *)

\* the header is 'Bearer ' followed by the token of a user of the provider
BearerOfAUser(h) == \E t \in DOMAIN TokenUser : h = H_Prefix \o <<t>>

\* the user whose token the header carries
UserOfHeader(h) == TokenUser[h[Len(h)]]

\* the request at p is with the middleware, or has been answered by it
WithMiddleware(r) == r.kind = "auth"

---------------------------------------------------------------------------
(* upload-multiple: failures of single files                               *)

\* a finished upload-multiple request that carried an array of files
MultiDone(r) == r.kind = "uploadMultiple" /\ r.pc = "done" /\ r.status # 400

\* the rows the store has got since the request arrived, in their order
CreatedSince(r) == SubSeq(files, Len(r.files0) + 1, Len(files))

\* the names of s in their order are names of t in their order
RECURSIVE NamesInOrder(_, _)
NamesInOrder(s, t) ==
  IF s = <<>> THEN TRUE
  ELSE IF t = <<>> THEN FALSE
  ELSE IF s[1].original_name = t[1].name
       THEN NamesInOrder(Tail(s), Tail(t)) \/ NamesInOrder(s, Tail(t))
       ELSE NamesInOrder(s, Tail(t))

\* C23: in upload-multiple a failure on one file does not stop the files
\* after it: the loop comes to every file of the request, the answer is a
\* success, and its body is the array of exactly the file records this
\* request created, in the order of the uploaded files.
C23_FailuresAreSkipped ==
  \A p \in DOMAIN req :
     MultiDone(req[p]) =>
        /\ req[p].status = 200
        /\ req[p].tried = [k \in 1..Len(req[p].batch) |-> k]
        /\ req[p].body = CreatedSince(req[p])
        /\ SubSeq(files, 1, Len(req[p].files0)) = req[p].files0
        /\ NamesInOrder(req[p].body, req[p].batch)

\* two files, the first fails, the second is created and is the whole answer
C23_Witness ==
  \E p \in DOMAIN req :
     /\ MultiDone(req[p])
     /\ Len(req[p].batch) = 2
     /\ Len(req[p].body) = 1
     /\ req[p].body[1].original_name = req[p].batch[2].name
     /\ Cardinality(objects) = 1

\* the file rows a request holds as it read them
RowsRead(r) ==
  IF r.kind = "similar" THEN r.allFiles
  ELSE IF r.kind = "organize" THEN r.fileList
  ELSE <<>>

\* the step is one of request p, and it changes the record that is row k
WritesRow(p, k) ==
  /\ req'[p] # req[p]
  /\ k \in DOMAIN files'
  /\ files'[k].id = files[k].id
  /\ files'[k] # files[k]

\* C24: under any interleaving of concurrently handled requests of one user
\* no file record is written by two in-flight requests: a request that
\* writes a file record it read finds the record as it read it, so it
\* overwrites no change another request made in between.
C24_Original ==
  [][\A p \in DOMAIN req : \A k \in DOMAIN files :
       WritesRow(p, k) =>
         \A j \in DOMAIN RowsRead(req[p]) :
            RowsRead(req[p])[j].id = files[k].id
              => RowsRead(req[p])[j] = files[k]]_vars

\* C25: under any interleaving of concurrent upload, upload-multiple and
\* organize-files requests of one user, that user never has two AI-generated
\* folders whose names are equal case-insensitively.
C25_Original ==
  \A i, j \in DOMAIN folders :
     ( /\ i # j
       /\ folders[i].user_id = folders[j].user_id
       /\ folders[i].is_ai_generated /\ folders[j].is_ai_generated )
       => toLowerCase(folders[i].name) # toLowerCase(folders[j].name)

\* no request is in flight
Quiescent == \A p \in DOMAIN req : req[p].pc \in {"idle", "done"}

\* C26: at every point where no request is in flight, a file record exists
\* if and only if the storage object at its storage path exists.
C26_Original ==
  Quiescent =>
    /\ \A i \in DOMAIN files : files[i].storage_path \in objects
    /\ \A o \in objects : \E i \in DOMAIN files : files[i].storage_path = o

\* the run answered 200 and every tagging of it gave what the fallback
\* tagger gives for the file
FallbackRun(r) ==
  /\ r.kind = "organize" /\ r.pc = "done" /\ r.status = 200
  /\ \A t \in DOMAIN r.tagged :
       \A k \in DOMAIN r.fileList :
          r.fileList[k].id = r.tagged[t].id =>
            LET fb == generateFallbackTags(r.fileList[k].original_name,
                                           r.fileList[k].file_type)
            IN /\ r.tagged[t].suggestedFolderName = fb.suggestedFolderName
               /\ r.tagged[t].tags = fb.tags

\* C28: organize-files run twice in a row by one user with the fallback
\* tagger and no failure: the second run reports foldersCreated = 0 and
\* filesMoved = 0 and leaves every file and folder record as the first run
\* left it.
C28_Original ==
  ( /\ FallbackRun(req[1]) /\ FallbackRun(req[2])
    /\ req[1].userId = req[2].userId )
    => /\ req[2].body.foldersCreated = 0
       /\ req[2].body.filesMoved = 0
       /\ files = req[2].files0
       /\ folders = req[2].folders0

\* the folder rows the store has got since the request arrived
FoldersSince(r) == SubSeq(folders, Len(r.folders0) + 1, Len(folders))

\* C29: a folder created by POST /api/folders is owned by the authenticated
\* caller whatever userId the request body carries, and so is every folder
\* and file record created by upload and upload-multiple.
C29_CreatedRecordsBelongToTheCaller ==
  \A p \in DOMAIN req :
     req[p].kind \in {"createFolder", "upload", "uploadMultiple"} =>
       /\ \A k \in DOMAIN FoldersSince(req[p]) :
             FoldersSince(req[p])[k].user_id = req[p].userId
       /\ \A k \in DOMAIN CreatedSince(req[p]) :
             CreatedSince(req[p])[k].user_id = req[p].userId
       /\ ( req[p].kind = "createFolder" /\ req[p].status = 200 )
            => req[p].body.user_id = req[p].userId

\* POST /api/folders with the userId of another user in its body has
\* created its folder
C29_Witness ==
  \E p \in DOMAIN req :
     /\ req[p].kind = "createFolder" /\ req[p].status = 200
     /\ req[p].reqBody.userId \notin {"", req[p].userId}
     /\ FoldersSince(req[p]) # <<>>

=============================================================================
